---- MODULE Spec2Model ----
(***************************************************************************)
(* SCNT (source counter): the extension utilities, the plain-text and the  *)
(* C-family parsers, and the SCNT aggregator class.                        *)
(*                                                                         *)
(* A JavaScript string is a sequence of one-character strings; indexes in  *)
(* the operators below are the 0-based indexes of the source.              *)
(***************************************************************************)
EXTENDS Integers, Sequences, FiniteSets, TLC

VARIABLES
    options,            \* SCNT.options: requireExtension, defaultParser
    extensionAliases,   \* SCNT._extensionAliases: cleaned ext -> cleaned ext
    parsers,            \* SCNT._parsers: sequence of Parser objects
    extensions,         \* Parser.extensions of every Parser object
    filesRead,          \* SCNT._filesRead: file name -> Statistics
    lineStats,          \* SCNT._lineStats
    charStats,          \* SCNT._charStats
    last,               \* the last call made on the instance and its outcome
    calls,              \* the number of calls made on the instance
    scan,               \* the locals of one parse call on a Parser object
    replacing,          \* the replaceParser call in progress: its loop
    pending             \* the process calls awaiting their parse, oldest first

vars == <<options, extensionAliases, parsers, extensions, filesRead,
          lineStats, charStats, last, calls, scan, replacing, pending>>

scntVars == <<options, extensionAliases, parsers, extensions, filesRead,
              lineStats, charStats, last, calls, replacing, pending>>

(***************************************************************************)
(* Bounds of the model.                                                    *)
(***************************************************************************)
\* longest contents scanned character by character
MaxLen == 4
\* number of calls made on one SCNT instance
MaxCalls == 3

(***************************************************************************)
(* Strings.                                                                *)
(***************************************************************************)
Max(S) == CHOOSE x \in S : \A y \in S : y <= x

\* String.prototype.lastIndexOf(ch): 0-based, -1 when absent
lastIndexOf(s, ch) ==
    LET at == {i \in 1..Len(s) : s[i] = ch}
    IN  IF at = {} THEN -1 ELSE Max(at) - 1

\* String.prototype.substr(from) with 0 <= from <= length
substr(s, from) == SubSeq(s, from + 1, Len(s))

\* all strings over chars of length lo..hi
StringsOf(chars, lo, hi) == UNION {[1..n -> chars] : n \in lo..hi}

LowerLetters == <<"a","b","c","d","e","f","g","h","i","j","k","l","m",
                  "n","o","p","q","r","s","t","u","v","w","x","y","z">>
UpperLetters == <<"A","B","C","D","E","F","G","H","I","J","K","L","M",
                  "N","O","P","Q","R","S","T","U","V","W","X","Y","Z">>
Digits == {"0","1","2","3","4","5","6","7","8","9"}
Letters == {LowerLetters[i] : i \in 1..Len(LowerLetters)}
               \cup {UpperLetters[i] : i \in 1..Len(UpperLetters)}

\* the characters /\s/ matches (of the ASCII range)
WhitespaceChars == {" ", "\t", "\n", "\r", "\f"}

whitespacePattern(char) == char \in WhitespaceChars
numericalPattern(char) == char \in Digits
alphabeticalPattern(char) == char \in Letters

\* String.prototype.toLocaleLowerCase, one character
lowerChar(c) ==
    IF \E i \in 1..Len(UpperLetters) : UpperLetters[i] = c
    THEN LowerLetters[CHOOSE i \in 1..Len(UpperLetters) : UpperLetters[i] = c]
    ELSE c

toLocaleLowerCase(s) == [i \in 1..Len(s) |-> lowerChar(s[i])]

\* String.prototype.trim
trim(s) ==
    LET keep == {i \in 1..Len(s) : ~whitespacePattern(s[i])}
    IN  IF keep = {} THEN <<>>
        ELSE SubSeq(s, CHOOSE i \in keep : \A j \in keep : i <= j, Max(keep))

(***************************************************************************)
(* src/extensions.ts                                                       *)
(***************************************************************************)
\* a value that is not a string: the function or object an object literal
\* inherits as a property
Inherited == <<"[object]">>

\* hasExtension that accepts a leading dot
hasExtension_leadingDot(fileName) ==
    IF fileName = Inherited \/ Len(fileName) = 0 THEN FALSE
    ELSE LET lastDot == lastIndexOf(fileName, ".")
         IN  lastDot >= 0 /\ (Len(fileName) - lastDot) > 1

hasExtension(fileName) ==
    IF fileName = Inherited \/ Len(fileName) = 0 THEN FALSE
    ELSE LET lastDot == lastIndexOf(fileName, ".")
         IN  lastDot >= 1 /\ (Len(fileName) - lastDot) > 1

\* the characters of the class in /([\0\\/:*'"<>|.]+)/ (NUL left out)
ExtensionBadChars == {"\\", "/", ":", "*", "'", "\"", "<", ">", "|", "."}

regexpExtension(s) == \E i \in 1..Len(s) : s[i] \in ExtensionBadChars

\* cleanExtension without the lower-casing
cleanExtension_keepCase(ext) ==
    IF ext = Inherited \/ Len(ext) = 0 THEN <<>>
    ELSE LET lastDot == lastIndexOf(ext, ".")
             cln == IF lastDot = -1 THEN ext ELSE substr(ext, lastDot + 1)
         IN  IF regexpExtension(cln) THEN <<>>
             ELSE trim(cln)

\* cleanExtension that takes one whitespace character off each end
cleanExtension_trimOnce(ext) ==
    IF ext = Inherited \/ Len(ext) = 0 THEN <<>>
    ELSE LET lastDot == lastIndexOf(ext, ".")
             cln == IF lastDot = -1 THEN ext ELSE substr(ext, lastDot + 1)
             low == toLocaleLowerCase(cln)
             from == IF Len(low) > 0 /\ whitespacePattern(low[1])
                     THEN 2 ELSE 1
             to == IF Len(low) > 1 /\ whitespacePattern(low[Len(low)])
                   THEN Len(low) - 1 ELSE Len(low)
         IN  IF regexpExtension(cln) THEN <<>>
             ELSE SubSeq(low, from, to)

cleanExtension(ext) ==
    IF ext = Inherited \/ Len(ext) = 0 THEN <<>>
    ELSE LET lastDot == lastIndexOf(ext, ".")
             cln == IF lastDot = -1 THEN ext ELSE substr(ext, lastDot + 1)
         IN  IF regexpExtension(cln) THEN <<>>
             ELSE trim(toLocaleLowerCase(cln))

extractExtension(fileName) ==
    IF ~hasExtension(fileName) THEN <<>>
    ELSE LET lastDotPos == lastIndexOf(fileName, ".")
         IN  cleanExtension(substr(fileName, lastDotPos + 1))

(***************************************************************************)
(* src/stats.ts                                                            *)
(***************************************************************************)
makeEmptyLineStatistics ==
    [total |-> 0, totalSource |-> 0, source |-> 0, totalComments |-> 0,
     inlineComments |-> 0, blockComments |-> 0, mixed |-> 0,
     whitespace |-> 0, empty |-> 0]

makeEmptyCharacterStatistics ==
    [total |-> 0, source |-> 0, comment |-> 0, whitespace |-> 0,
     numerical |-> 0, alphabetical |-> 0, special |-> 0]

(***************************************************************************)
(* Parser.parse (plain text): one scan over contents.                      *)
(***************************************************************************)
PlainStart ==
    [ind |-> 0, charIndex |-> 0, hadChar |-> FALSE,
     lineStats |-> makeEmptyLineStatistics,
     charStats |-> makeEmptyCharacterStatistics]

\* incrementLine without the else between the empty test and the others
PlainIncrementLine_noElse(s) ==
    LET ls == s.lineStats
        e == IF s.charIndex = 0 THEN [ls EXCEPT !.empty = @ + 1] ELSE ls
        counted == IF s.hadChar THEN [e EXCEPT !.source = @ + 1]
                   ELSE [e EXCEPT !.whitespace = @ + 1]
    IN  [s EXCEPT !.lineStats = counted, !.charIndex = 0, !.hadChar = FALSE]

\* the closure incrementLine of Parser.parse
PlainIncrementLine(s) ==
    LET ls == s.lineStats
        counted ==
            IF s.charIndex = 0 THEN [ls EXCEPT !.empty = @ + 1]
            ELSE IF s.hadChar THEN [ls EXCEPT !.source = @ + 1]
            ELSE [ls EXCEPT !.whitespace = @ + 1]
    IN  [s EXCEPT !.lineStats = counted, !.charIndex = 0, !.hadChar = FALSE]

\* the loop body without the CRLF correction
PlainStep_noCrlf(s, contents) ==
    LET ind == s.ind
        char == contents[ind + 1]
        next == [s EXCEPT !.ind = ind + 1]
    IN  IF whitespacePattern(char) THEN
            IF char = "\n" THEN PlainIncrementLine(next)
            ELSE [next EXCEPT !.charStats.whitespace = @ + 1,
                              !.charIndex = @ + 1]
        ELSE IF numericalPattern(char) THEN
            [next EXCEPT !.hadChar = TRUE, !.charStats.numerical = @ + 1,
                         !.charIndex = @ + 1]
        ELSE IF alphabeticalPattern(char) THEN
            [next EXCEPT !.hadChar = TRUE, !.charStats.alphabetical = @ + 1,
                         !.charIndex = @ + 1]
        ELSE
            [next EXCEPT !.hadChar = TRUE, !.charStats.special = @ + 1,
                         !.charIndex = @ + 1]

\* the loop body that counts the line end as a whitespace character
PlainStep_lineEndCounted(s, contents) ==
    LET ind == s.ind
        char == contents[ind + 1]
        next == [s EXCEPT !.ind = ind + 1]
    IN  IF whitespacePattern(char) THEN
            IF char = "\n" THEN
                LET crlf == ind > 1 /\ contents[ind] = "\r"
                    fixed == IF crlf
                             THEN [next EXCEPT !.charIndex = @ - 1,
                                               !.charStats.whitespace = @ - 1]
                             ELSE next
                IN  PlainIncrementLine(
                        [fixed EXCEPT !.charStats.whitespace = @ + 1])
            ELSE [next EXCEPT !.charStats.whitespace = @ + 1,
                              !.charIndex = @ + 1]
        ELSE IF numericalPattern(char) THEN
            [next EXCEPT !.hadChar = TRUE, !.charStats.numerical = @ + 1,
                         !.charIndex = @ + 1]
        ELSE IF alphabeticalPattern(char) THEN
            [next EXCEPT !.hadChar = TRUE, !.charStats.alphabetical = @ + 1,
                         !.charIndex = @ + 1]
        ELSE
            [next EXCEPT !.hadChar = TRUE, !.charStats.special = @ + 1,
                         !.charIndex = @ + 1]

\* one iteration of the for loop of Parser.parse
PlainStep(s, contents) ==
    LET ind == s.ind
        char == contents[ind + 1]
        next == [s EXCEPT !.ind = ind + 1]
    IN  IF whitespacePattern(char) THEN
            IF char = "\n" THEN
                LET crlf == ind > 1 /\ contents[ind] = "\r"
                    fixed == IF crlf
                             THEN [next EXCEPT !.charIndex = @ - 1,
                                               !.charStats.whitespace = @ - 1]
                             ELSE next
                IN  PlainIncrementLine(fixed)
            ELSE [next EXCEPT !.charStats.whitespace = @ + 1,
                              !.charIndex = @ + 1]
        ELSE IF numericalPattern(char) THEN
            [next EXCEPT !.hadChar = TRUE, !.charStats.numerical = @ + 1,
                         !.charIndex = @ + 1]
        ELSE IF alphabeticalPattern(char) THEN
            [next EXCEPT !.hadChar = TRUE, !.charStats.alphabetical = @ + 1,
                         !.charIndex = @ + 1]
        ELSE
            [next EXCEPT !.hadChar = TRUE, !.charStats.special = @ + 1,
                         !.charIndex = @ + 1]

RECURSIVE PlainScan(_, _)
PlainScan(s, contents) ==
    IF s.ind < Len(contents) THEN PlainScan(PlainStep(s, contents), contents)
    ELSE s

\* the code after the loop: the flush at end of input and the tallies
PlainFinish(s) ==
    LET f == PlainIncrementLine(s)
        cs == f.charStats
        ls == f.lineStats
        src == cs.numerical + cs.alphabetical + cs.special
    IN  <<[ls EXCEPT !.totalSource = ls.source,
                     !.total = ls.source + ls.whitespace + ls.empty],
          [cs EXCEPT !.source = src, !.total = src + cs.whitespace]>>

\* the Statistics Parser.parse resolves with (contents not empty)
PlainParse(contents) == PlainFinish(PlainScan(PlainStart, contents))

(***************************************************************************)
(* CFamilyParser.parse: one scan over contents, tracking comments.         *)
(***************************************************************************)
CFamilyStart ==
    [ind |-> 0, charIndex |-> 0, hadChar |-> FALSE, hadSource |-> FALSE,
     inInline |-> FALSE, inBlock |-> FALSE,
     lineStats |-> makeEmptyLineStatistics,
     charStats |-> makeEmptyCharacterStatistics]

\* incrementLine that leaves inInline as it is
CFamilyIncrementLine_keepInline(s) ==
    LET ls == s.lineStats
        byMode ==
            IF s.inInline THEN
                IF s.hadSource THEN [ls EXCEPT !.mixed = @ + 1]
                ELSE [ls EXCEPT !.inlineComments = @ + 1]
            ELSE IF s.inBlock THEN
                IF s.hadSource THEN [ls EXCEPT !.mixed = @ + 1]
                ELSE [ls EXCEPT !.blockComments = @ + 1]
            ELSE
                LET e == IF s.charIndex = 0 THEN [ls EXCEPT !.empty = @ + 1]
                         ELSE ls
                IN  IF s.hadChar THEN [e EXCEPT !.source = @ + 1] ELSE e
        ws == IF ~s.hadChar THEN [byMode EXCEPT !.whitespace = @ + 1]
              ELSE byMode
    IN  [s EXCEPT !.lineStats = [ws EXCEPT !.total = @ + 1],
                  !.charIndex = 0, !.hadSource = FALSE]

\* the closure incrementLine of CFamilyParser.parse
CFamilyIncrementLine(s) ==
    LET ls == s.lineStats
        byMode ==
            IF s.inInline THEN
                IF s.hadSource THEN [ls EXCEPT !.mixed = @ + 1]
                ELSE [ls EXCEPT !.inlineComments = @ + 1]
            ELSE IF s.inBlock THEN
                IF s.hadSource THEN [ls EXCEPT !.mixed = @ + 1]
                ELSE [ls EXCEPT !.blockComments = @ + 1]
            ELSE
                LET e == IF s.charIndex = 0 THEN [ls EXCEPT !.empty = @ + 1]
                         ELSE ls
                IN  IF s.hadChar THEN [e EXCEPT !.source = @ + 1] ELSE e
        ws == IF ~s.hadChar THEN [byMode EXCEPT !.whitespace = @ + 1]
              ELSE byMode
    IN  [s EXCEPT !.lineStats = [ws EXCEPT !.total = @ + 1],
                  !.charIndex = 0, !.hadSource = FALSE, !.inInline = FALSE]

\* the two-character window of the marker detection
CFamilyTuple(s, contents) ==
    IF s.ind > 0 /\ s.charIndex > 0
    THEN <<contents[s.ind], contents[s.ind + 1]>>
    ELSE <<>>

\* marker detection where "//" is not guarded by the modes
CFamilyMarkers_inlineInBlock(s, contents) ==
    LET c == IF s.inInline \/ s.inBlock
             THEN [s EXCEPT !.charStats.comment = @ + 1]
             ELSE s
        tuple == CFamilyTuple(s, contents)
    IN  IF tuple = <<"/", "/">> THEN
            [c EXCEPT !.inInline = TRUE, !.charStats.source = @ - 1]
        ELSE IF tuple = <<"/", "*">> THEN
            [c EXCEPT !.inInline = FALSE, !.inBlock = TRUE,
                      !.charStats.source = @ - 1]
        ELSE IF c.inBlock /\ tuple = <<"*", "/">> THEN
            [c EXCEPT !.inInline = FALSE, !.inBlock = FALSE,
                      !.charStats.source = @ - 1]
        ELSE c

\* marker detection where "/*" does not switch inInline off
CFamilyMarkers_blockKeepsInline(s, contents) ==
    LET c == IF s.inInline \/ s.inBlock
             THEN [s EXCEPT !.charStats.comment = @ + 1]
             ELSE s
        tuple == CFamilyTuple(s, contents)
    IN  IF ~c.inInline /\ ~c.inBlock /\ tuple = <<"/", "/">> THEN
            [c EXCEPT !.inInline = TRUE, !.charStats.source = @ - 1]
        ELSE IF tuple = <<"/", "*">> THEN
            [c EXCEPT !.inBlock = TRUE, !.charStats.source = @ - 1]
        ELSE IF c.inBlock /\ tuple = <<"*", "/">> THEN
            [c EXCEPT !.inInline = FALSE, !.inBlock = FALSE,
                      !.charStats.source = @ - 1]
        ELSE c

\* the comment accounting and marker detection of one iteration
CFamilyMarkers(s, contents) ==
    LET c == IF s.inInline \/ s.inBlock
             THEN [s EXCEPT !.charStats.comment = @ + 1]
             ELSE s
        tuple == CFamilyTuple(s, contents)
    IN  IF ~c.inInline /\ ~c.inBlock /\ tuple = <<"/", "/">> THEN
            [c EXCEPT !.inInline = TRUE, !.charStats.source = @ - 1]
        ELSE IF tuple = <<"/", "*">> THEN
            [c EXCEPT !.inInline = FALSE, !.inBlock = TRUE,
                      !.charStats.source = @ - 1]
        ELSE IF c.inBlock /\ tuple = <<"*", "/">> THEN
            [c EXCEPT !.inInline = FALSE, !.inBlock = FALSE,
                      !.charStats.source = @ - 1]
        ELSE c

\* the switch of one iteration, then charIndex++
CFamilyClassify(m, char) ==
    LET t == IF whitespacePattern(char) THEN
                 LET l == IF char = "\n" THEN CFamilyIncrementLine(m) ELSE m
                 IN  [l EXCEPT !.charStats.whitespace = @ + 1]
             ELSE
                 LET out == ~m.inInline /\ ~m.inBlock
                     h == [m EXCEPT !.hadChar = TRUE,
                                    !.charStats.source =
                                        IF out THEN @ + 1 ELSE @]
                 IN  IF numericalPattern(char) THEN
                         [h EXCEPT !.charStats.numerical = @ + 1,
                                   !.hadSource = @ \/ out]
                     ELSE IF alphabeticalPattern(char) THEN
                         [h EXCEPT !.charStats.alphabetical = @ + 1,
                                   !.hadSource = @ \/ out]
                     ELSE [h EXCEPT !.charStats.special = @ + 1]
    IN  [t EXCEPT !.charIndex = @ + 1]

\* one iteration of the for loop of CFamilyParser.parse
CFamilyStep(s, contents) ==
    LET m == CFamilyMarkers(s, contents)
        t == CFamilyClassify(m, contents[s.ind + 1])
    IN  [t EXCEPT !.ind = s.ind + 1]

RECURSIVE CFamilyScan(_, _)
CFamilyScan(s, contents) ==
    IF s.ind < Len(contents)
    THEN CFamilyScan(CFamilyStep(s, contents), contents)
    ELSE s

\* the code after the loop: the tallies (no line is closed at end of input)
CFamilyFinish(s, contents) ==
    LET ls == s.lineStats
    IN  <<[ls EXCEPT !.totalSource = ls.source + ls.mixed,
                     !.totalComments =
                         ls.inlineComments + ls.blockComments + ls.mixed],
          [s.charStats EXCEPT !.total = Len(contents)]>>

\* the Statistics CFamilyParser.parse resolves with (contents not empty)
CFamilyParse(contents) ==
    CFamilyFinish(CFamilyScan(CFamilyStart, contents), contents)

(***************************************************************************)
(* Parser objects.  Two instances exist: a plain-text Parser and a         *)
(* CFamilyParser.                                                          *)
(***************************************************************************)
NULL == "null"

ParserObjects == {"P1", "P2"}

\* Parser.id: 'plain' for the base class, 'cfamily' for CFamilyParser
ParserId(p) == IF p = "P2" THEN "cfamily" ELSE "plain"

\* the extensions the constructors set
InitialExtensions(p) ==
    IF p = "P2" THEN
        << <<"c">>, <<"c","p","p">>, <<"c","c">>, <<"c","x","x">>,
           <<"c","s">>, <<"h">>, <<"h","p","p">>, <<"h","x">>,
           <<"h","x","x">>,
           <<"j","s">>, <<"m","j","s">>, <<"j","s","x">>, <<"t","s">>,
           <<"t","s","x">>,
           <<"j","a","v","a">>, <<"k","t">>, <<"k","t","s">>,
           <<"k","t","m">>,
           <<"p","h","p">>, <<"p","h","p","5">>,
           <<"m">>, <<"m","m">>, <<"s","w","i","f","t">>,
           <<"s","c","a","l","a">>, <<"s","c">>,
           <<"s","a","s","s">>, <<"s","c","s","s">>, <<"l","e","s","s">>,
           <<"g","o">>, <<"r","s">> >>
    ELSE << >>

\* Parser.hasExtension
ParserHasExtension(p, ext) ==
    LET cln == cleanExtension(ext)
    IN  cln # <<>> /\ \E i \in 1..Len(extensions[p]) : extensions[p][i] = cln

\* the self-check at the end of CFamilyParser.parse: the categories of the
\* lines add up to the line total
CFamilySelfCheck(ls) ==
    ls.source + ls.mixed + ls.inlineComments + ls.blockComments
        + ls.whitespace + ls.empty
    = ls.total

\* parser.parse(contents) writes a diagnostic with console.error
ParserLogs(p, contents) ==
    /\ ParserId(p) = "cfamily"
    /\ ~CFamilySelfCheck(CFamilyParse(contents)[1])

\* parse that rejects when the self-check fails
ParserRejects_inconsistent(p, contents) ==
    Len(contents) = 0 \/ ParserLogs(p, contents)

\* parse that never rejects
ParserRejects_never(p, contents) == FALSE

\* parser.parse(contents) rejects empty contents (both classes)
ParserRejects(p, contents) == Len(contents) = 0

\* parser.parse(contents), contents not empty: the Statistics resolved
ParserParse(p, contents) ==
    IF ParserId(p) = "cfamily" THEN CFamilyParse(contents)
    ELSE PlainParse(contents)

(***************************************************************************)
(* src/scnt.ts: the SCNT class.                                            *)
(***************************************************************************)
DefaultOptions == [requireExtension |-> TRUE, defaultParser |-> NULL]

\* findIndex that answers with the last passing entry
findIndex_last(passes) ==
    LET at == {i \in 1..Len(passes) : passes[i]}
    IN  IF at = {} THEN -1 ELSE (CHOOSE i \in at : \A j \in at : i >= j) - 1

\* Array.prototype.findIndex, given the callback's answer for every entry:
\* 0-based, -1 when no entry passes
findIndex(passes) ==
    LET at == {i \in 1..Len(passes) : passes[i]}
    IN  IF at = {} THEN -1 ELSE (CHOOSE i \in at : \A j \in at : i <= j) - 1

getParserForExtension(ext) ==
    LET clean == cleanExtension(ext)
    IN  IF clean = <<>> THEN NULL
        ELSE LET ind == findIndex([i \in 1..Len(parsers) |->
                                      ParserHasExtension(parsers[i], clean)])
             IN  IF ind = -1 THEN NULL ELSE parsers[ind + 1]

hasParserForExtension(ext) ==
    LET clean == cleanExtension(ext)
    IN  IF clean = <<>> THEN FALSE
        ELSE findIndex([i \in 1..Len(parsers) |->
                           ParserHasExtension(parsers[i], clean)]) # -1

\* _extensionAliases is an object literal: besides its own keys it answers
\* for the keys of Object.prototype; the two a cleaned (lower-case)
\* extension can spell are 'constructor' and '__proto__'
ObjectPrototypeKeys ==
    { <<"c","o","n","s","t","r","u","c","t","o","r">>,
      <<"_","_","p","r","o","t","o","_","_">> }

\* aliases[key], aliases the object _extensionAliases; << >> stands for
\* undefined
aliasGet(aliases, key) ==
    IF key \in DOMAIN aliases THEN aliases[key]
    ELSE IF key \in ObjectPrototypeKeys THEN Inherited
    ELSE << >>

\* aliases[key] = value, value a string: the setter of
\* '__proto__' ignores a string, every other key becomes an own key
aliasSet(aliases, key, value) ==
    IF key = <<"_","_","p","r","o","t","o","_","_">> THEN aliases
    ELSE [e \in DOMAIN aliases \cup {key} |->
             IF e = key THEN value ELSE aliases[e]]

\* delete aliases[key]: own keys only
aliasDelete(aliases, key) ==
    [e \in DOMAIN aliases \ {key} |-> aliases[e]]

\* aliasExtension with the break taken only when nothing was replaced
RECURSIVE aliasFollow(_, _)
aliasFollow(repl, used) ==
    IF repl \in DOMAIN extensionAliases /\ repl \notin used
    THEN aliasFollow(extensionAliases[repl], used \cup {repl})
    ELSE repl

aliasExtension_chained(ext) == aliasFollow(cleanExtension(ext), {})

\* the body of the while(true) loop runs once: it ends in a bare break
aliasExtension(ext) ==
    LET used == {}
        repl == cleanExtension(ext)
    IN  IF aliasGet(extensionAliases, repl) # << >> /\ repl \notin used
        THEN aliasGet(extensionAliases, repl)
        ELSE repl

\* decrement that subtracts nothing
decrement_none(totals, stats) == totals

\* decrement / increment: counter by counter over the keys of stats
decrement(totals, stats) ==
    [key \in DOMAIN totals |->
        IF key \in DOMAIN stats THEN totals[key] - stats[key] ELSE totals[key]]

increment(totals, stats) ==
    [key \in DOMAIN totals |->
        IF key \in DOMAIN stats THEN totals[key] + stats[key] ELSE totals[key]]

\* processSelect that falls back to the default parser whatever
\* requireExtension says
processSelect_anyDefault(fileName) ==
    LET has == hasExtension(fileName)
        ext0 == IF has THEN extractExtension(fileName) ELSE <<>>
        ext == aliasExtension(ext0)
        parser == IF ext # <<>> THEN getParserForExtension(ext)
                  ELSE options.defaultParser
    IN  IF ~has /\ options.defaultParser = NULL
        THEN [ok |-> FALSE, parser |-> NULL]
        ELSE [ok |-> parser # NULL, parser |-> parser]

\* process up to the parser call: the extension, its alias and the parser
\* chosen; ok is FALSE where process throws
processSelect(fileName) ==
    LET has == hasExtension(fileName)
        ext0 == IF has THEN extractExtension(fileName) ELSE <<>>
        ext == aliasExtension(ext0)
        parser == IF ext # <<>> THEN getParserForExtension(ext)
                  ELSE options.defaultParser
    IN  IF ~has /\ (options.requireExtension \/ options.defaultParser = NULL)
        THEN [ok |-> FALSE, parser |-> NULL]
        ELSE [ok |-> parser # NULL, parser |-> parser]

(***************************************************************************)
(* The calls made on one SCNT instance, and their arguments.               *)
(***************************************************************************)
FileNames ==
    { <<"a",".","c">>,      \* an extension the C-family parser claims
      <<"a",".","x">>,      \* an extension no parser claims
      <<"a">>,              \* no extension
      <<"a",".","*">> }     \* a suffix cleanExtension rejects

Contents ==
    { <<>>, <<"a">>, <<"a","\n","1">>, <<"/","/","a","\n">> }

ExtensionInputs == { <<"x">>, <<"c">>, <<"y">>, <<".","X">>, <<"*">> }

OptionInputs ==
    LET req == {[requireExtension |-> b] : b \in BOOLEAN}
        def == {[defaultParser |-> d] : d \in {NULL, "P1"}}
    IN  req \cup def
            \cup {[requireExtension |-> r.requireExtension,
                   defaultParser |-> d.defaultParser] : r \in req, d \in def}

\* the record of a call that is not a process call
Called(op, arg, ok, ret) ==
    [op |-> op, arg |-> arg, ok |-> ok, ret |-> ret, contents |-> <<>>,
     parser |-> NULL, tracked |-> FALSE, again |-> FALSE, error |-> NULL,
     overtook |-> FALSE, logged |-> FALSE]

\* the record of a call that threw: error is the class of what it threw
Thrown(op, arg, error) ==
    [Called(op, arg, FALSE, <<>>) EXCEPT !.error = error]

Init ==
    /\ options = DefaultOptions
    /\ extensionAliases = << >>
    /\ parsers = << >>
    /\ extensions = [p \in ParserObjects |-> InitialExtensions(p)]
    /\ filesRead = << >>
    /\ lineStats = makeEmptyLineStatistics
    /\ charStats = makeEmptyCharacterStatistics
    /\ last = Called("new", <<>>, TRUE, <<>>)
    /\ calls = 0
    /\ scan = [pc |-> "idle"]
    /\ replacing = [pc |-> "idle"]
    /\ pending = << >>

\* a call on the instance: none starts while replaceParser is in its loop
Call ==
    /\ replacing.pc # "loop"
    /\ calls < MaxCalls
    /\ calls' = calls + 1

\* reset that clears the map of files and keeps the running totals
reset_keepTotals ==
    /\ Call
    /\ filesRead' = << >>
    /\ last' = [Called("reset", <<>>, TRUE, <<>>) EXCEPT
                    !.tracked = DOMAIN filesRead # {}]
    /\ UNCHANGED <<options, extensionAliases, parsers, extensions, lineStats,
                   charStats, scan, replacing, pending>>

\* reset(); the record keeps whether any file was tracked before the call
reset ==
    /\ Call
    /\ filesRead' = << >>
    /\ lineStats' = makeEmptyLineStatistics
    /\ charStats' = makeEmptyCharacterStatistics
    /\ last' = [Called("reset", <<>>, TRUE, <<>>) EXCEPT
                    !.tracked = DOMAIN filesRead # {}]
    /\ UNCHANGED <<options, extensionAliases, parsers, extensions, scan,
                   replacing, pending>>

applyOptions(opts) ==
    /\ Call
    /\ options' = [k \in DOMAIN DefaultOptions |->
                     IF k \in DOMAIN opts THEN opts[k] ELSE DefaultOptions[k]]
    /\ last' = Called("applyOptions", <<>>, TRUE, <<>>)
    /\ UNCHANGED <<extensionAliases, parsers, extensions, filesRead,
                   lineStats, charStats, scan, replacing, pending>>

\* processReconcile that undoes a tracked file before it knows whether the
\* call succeeds
processReconcile_undoFirst(sel, fileName, contents) ==
    LET tracked == fileName \in DOMAIN filesRead
        decL == IF tracked THEN decrement(lineStats, filesRead[fileName][1])
                ELSE lineStats
        decC == IF tracked THEN decrement(charStats, filesRead[fileName][2])
                ELSE charStats
    IN  IF ~sel.ok THEN
            [stats |-> <<>>, filesRead |-> filesRead,
             lineStats |-> decL, charStats |-> decC]
        ELSE
            LET stats == ParserParse(sel.parser, contents)
            IN  [stats |-> stats,
                 filesRead |-> [f \in DOMAIN filesRead \cup {fileName} |->
                                  IF f = fileName THEN stats
                                  ELSE filesRead[f]],
                 lineStats |-> increment(decL, stats[1]),
                 charStats |-> increment(decC, stats[2])]

\* processReconcile that stores the new Statistics as the totals
processReconcile_overwrite(sel, fileName, contents) ==
    IF ~sel.ok THEN
        [stats |-> <<>>, filesRead |-> filesRead,
         lineStats |-> lineStats, charStats |-> charStats]
    ELSE
        LET stats == ParserParse(sel.parser, contents)
        IN  [stats |-> stats,
             filesRead |-> [f \in DOMAIN filesRead \cup {fileName} |->
                              IF f = fileName THEN stats ELSE filesRead[f]],
             lineStats |-> increment(makeEmptyLineStatistics, stats[1]),
             charStats |-> increment(makeEmptyCharacterStatistics, stats[2])]

\* process after the parser was chosen: the awaited parse and the
\* reconciliation; a failed choice changes nothing
processReconcile(sel, fileName, contents) ==
    IF ~sel.ok THEN
        [stats |-> <<>>, filesRead |-> filesRead,
         lineStats |-> lineStats, charStats |-> charStats]
    ELSE
        LET stats == ParserParse(sel.parser, contents)
            tracked == fileName \in DOMAIN filesRead
            decL == IF tracked THEN decrement(lineStats, stats[1])
                    ELSE lineStats
            decC == IF tracked THEN decrement(charStats, stats[2])
                    ELSE charStats
        IN  [stats |-> stats,
             filesRead |-> [f \in DOMAIN filesRead \cup {fileName} |->
                              IF f = fileName THEN stats ELSE filesRead[f]],
             lineStats |-> increment(decL, stats[1]),
             charStats |-> increment(decC, stats[2])]

\* process(fileName, contents): the whole call, the awaited parse included
process(fileName, contents) ==
    LET sel == IF Len(contents) = 0 THEN [ok |-> FALSE, parser |-> NULL]
               ELSE processSelect(fileName)
        rec == processReconcile(sel, fileName, contents)
    IN  /\ Call
        /\ filesRead' = rec.filesRead
        /\ lineStats' = rec.lineStats
        /\ charStats' = rec.charStats
        /\ last' = [op |-> "process", arg |-> fileName, ok |-> sel.ok,
                    ret |-> rec.stats, contents |-> contents,
                    parser |-> sel.parser,
                    tracked |-> fileName \in DOMAIN filesRead,
                    again |-> /\ last.op = "process" /\ last.ok
                              /\ last.arg = fileName
                              /\ last.contents = contents,
                    error |-> IF sel.ok THEN NULL ELSE "Error",
                    overtook |-> FALSE,
                    logged |-> sel.ok /\ ParserLogs(sel.parser, contents)]
        /\ UNCHANGED <<options, extensionAliases, parsers, extensions, scan,
                       replacing, pending>>

\* addParser(parser), parser one Parser object, or null or an object that
\* is not a Parser
addParser(parser) ==
    LET exists == findIndex([i \in 1..Len(parsers) |->
                                ParserId(parsers[i]) = ParserId(parser)])
    IN  /\ Call
        /\ IF parser \notin ParserObjects THEN
               /\ last' = Thrown("addParser", <<>>, "TypeError")
               /\ UNCHANGED parsers
           ELSE
               /\ parsers' = IF exists = -1 THEN Append(parsers, parser)
                             ELSE parsers
               /\ last' = Called("addParser", <<>>, TRUE, <<>>)
        /\ UNCHANGED <<options, extensionAliases, extensions, filesRead,
                       lineStats, charStats, scan, replacing, pending>>

\* removeParser(parser), parser one Parser object (matched by its id)
removeParser(parser) ==
    /\ Call
    /\ parsers' = SelectSeq(parsers,
                            LAMBDA ent : ParserId(ent) # ParserId(parser))
    /\ last' = Called("removeParser", <<>>, TRUE, <<>>)
    /\ UNCHANGED <<options, extensionAliases, extensions, filesRead,
                   lineStats, charStats, scan, replacing, pending>>

\* clearParsers that forgets the files as well
clearParsers_andFiles ==
    /\ Call
    /\ parsers' = << >>
    /\ filesRead' = << >>
    /\ last' = Called("clearParsers", <<>>, TRUE, <<>>)
    /\ UNCHANGED <<options, extensionAliases, extensions,
                   lineStats, charStats, scan, replacing, pending>>

clearParsers ==
    /\ Call
    /\ parsers' = << >>
    /\ last' = Called("clearParsers", <<>>, TRUE, <<>>)
    /\ UNCHANGED <<options, extensionAliases, extensions, filesRead,
                   lineStats, charStats, scan, replacing, pending>>

\* the call aliasExtension(ext): changes nothing, returns the extension
callAliasExtension(ext) ==
    /\ Call
    /\ last' = Called("aliasExtension", ext, TRUE, aliasExtension(ext))
    /\ UNCHANGED <<options, extensionAliases, parsers, extensions, filesRead,
                   lineStats, charStats, scan, replacing, pending>>

addExtensionAlias(oldExt, newExt) ==
    LET oldCln == cleanExtension(oldExt)
        newCln == cleanExtension(newExt)
    IN  /\ Call
        /\ IF oldCln = <<>> \/ newCln = <<>> THEN
               /\ last' = Thrown("addExtensionAlias", <<oldExt, newExt>>,
                                 "TypeError")
               /\ UNCHANGED extensionAliases
           ELSE
               /\ extensionAliases' =
                      aliasSet(extensionAliases, oldCln, newCln)
               /\ last' = Called("addExtensionAlias", <<oldExt, newExt>>,
                                 TRUE, aliasGet(extensionAliases, oldCln))
        /\ UNCHANGED <<options, parsers, extensions, filesRead,
                       lineStats, charStats, scan, replacing, pending>>

removeExtensionAlias(ext) ==
    LET cln == cleanExtension(ext)
    IN  /\ Call
        /\ IF cln = <<>> THEN
               /\ last' = Thrown("removeExtensionAlias", ext, "TypeError")
               /\ UNCHANGED extensionAliases
           ELSE
               /\ extensionAliases' =
                      IF aliasGet(extensionAliases, cln) # << >>
                      THEN aliasDelete(extensionAliases, cln)
                      ELSE extensionAliases
               /\ last' = Called("removeExtensionAlias", ext, TRUE,
                                 aliasGet(extensionAliases, cln) # << >>)
        /\ UNCHANGED <<options, parsers, extensions, filesRead,
                       lineStats, charStats, scan, replacing, pending>>

clearExtensionAliases ==
    /\ Call
    /\ extensionAliases' = << >>
    /\ last' = Called("clearExtensionAliases", <<>>, TRUE, <<>>)
    /\ UNCHANGED <<options, parsers, extensions, filesRead,
                   lineStats, charStats, scan, replacing, pending>>

Next ==
    \/ \E parser \in ParserObjects : addParser(parser)
    \/ \E fileName \in FileNames, contents \in Contents :
           process(fileName, contents)
    \/ reset
    \/ \E opts \in OptionInputs : applyOptions(opts)
    \/ \E parser \in ParserObjects : removeParser(parser)
    \/ clearParsers
    \/ \E ext \in ExtensionInputs : callAliasExtension(ext)
    \/ \E oldExt \in ExtensionInputs, newExt \in ExtensionInputs :
           addExtensionAlias(oldExt, newExt)
    \/ \E ext \in ExtensionInputs : removeExtensionAlias(ext)
    \/ clearExtensionAliases

Spec == Init /\ [][Next]_vars

(***************************************************************************)
(* An instance constructed with options, its process and reset calls, and  *)
(* parse called directly on the Parser objects.                            *)
(***************************************************************************)
\* new SCNT(options): options absent, or applied over the defaults
InitConstructed ==
    /\ options \in {DefaultOptions}
           \cup {[k \in DOMAIN DefaultOptions |->
                     IF k \in DOMAIN opts THEN opts[k]
                     ELSE DefaultOptions[k]] : opts \in OptionInputs}
    /\ extensionAliases = << >>
    /\ parsers = << >>
    /\ extensions = [p \in ParserObjects |-> InitialExtensions(p)]
    /\ filesRead = << >>
    /\ lineStats = makeEmptyLineStatistics
    /\ charStats = makeEmptyCharacterStatistics
    /\ last = Called("new", <<>>, TRUE, <<>>)
    /\ calls = 0
    /\ scan = [pc |-> "idle"]
    /\ replacing = [pc |-> "idle"]
    /\ pending = << >>

\* p.parse(contents) awaited by the caller (not a call on the SCNT
\* instance): rejected, or resolved with the Statistics
callParse(p, contents) ==
    LET rejected == ParserRejects(p, contents)
    IN  /\ replacing.pc # "loop"
        /\ last' = [Called("parse", <<>>, ~rejected,
                           IF rejected THEN <<>>
                           ELSE ParserParse(p, contents)) EXCEPT
                       !.contents = contents, !.parser = p,
                       !.error = IF rejected THEN "Error" ELSE NULL,
                       !.logged = ~rejected /\ ParserLogs(p, contents)]
        /\ UNCHANGED <<options, extensionAliases, parsers, extensions,
                       filesRead, lineStats, charStats, calls, scan,
                       replacing, pending>>

NextConstructed ==
    \/ \E fileName \in FileNames, contents \in Contents :
           process(fileName, contents)
    \/ reset
    \/ \E parser \in ParserObjects : addParser(parser)
    \/ clearParsers
    \/ \E p \in ParserObjects, contents \in Contents : callParse(p, contents)

SpecConstructed == InitConstructed /\ [][NextConstructed]_vars

(***************************************************************************)
(* Texts for which the self-check of the C-family parser fails, parsed     *)
(* directly and through process.                                           *)
(***************************************************************************)
DiagnosticContents == { <<>>, <<"a">>, <<"\n">>, <<" ", "\n", "a">> }

DiagnosticFileNames == { <<"a",".","c">>, <<"b",".","c">> }

NextDiagnostic ==
    \/ \E parser \in ParserObjects : addParser(parser)
    \/ \E fileName \in DiagnosticFileNames, contents \in DiagnosticContents :
           process(fileName, contents)
    \/ \E p \in ParserObjects, contents \in DiagnosticContents :
           callParse(p, contents)

SpecDiagnostic == InitConstructed /\ [][NextDiagnostic]_vars

(***************************************************************************)
(* Several process calls in flight on one instance.  The code of process   *)
(* up to "await parser.parse(contents)" runs when the call is made; the    *)
(* code after the await runs, without interruption, when the parse has     *)
(* resolved, and the pending calls may resume in any order.                *)
(***************************************************************************)

\* process(fileName, contents) up to the await: the call throws, or waits
\* for the parse of the parser it has chosen
processStart(fileName, contents) ==
    LET sel == IF Len(contents) = 0 THEN [ok |-> FALSE, parser |-> NULL]
               ELSE processSelect(fileName)
    IN  /\ Call
        /\ pending' = IF sel.ok
                      THEN Append(pending, [fileName |-> fileName,
                                            parser |-> sel.parser,
                                            contents |-> contents])
                      ELSE pending
        /\ last' = IF sel.ok
                   THEN [Called("process pending", fileName, TRUE, <<>>)
                            EXCEPT !.contents = contents,
                                   !.parser = sel.parser]
                   ELSE [Thrown("process", fileName, "Error")
                            EXCEPT !.contents = contents]
        /\ UNCHANGED <<options, extensionAliases, parsers, extensions,
                       filesRead, lineStats, charStats, scan, replacing>>

\* the i-th pending call resumes after its await: the reconciliation and
\* the return of the Statistics
processComplete(i) ==
    /\ i \in 1..Len(pending)
    /\ LET call == pending[i]
           rec == processReconcile([ok |-> TRUE, parser |-> call.parser],
                                   call.fileName, call.contents)
       IN  /\ filesRead' = rec.filesRead
           /\ lineStats' = rec.lineStats
           /\ charStats' = rec.charStats
           /\ last' = [Called("process", call.fileName, TRUE, rec.stats)
                          EXCEPT !.contents = call.contents,
                                 !.parser = call.parser,
                                 !.tracked =
                                     call.fileName \in DOMAIN filesRead,
                                 !.overtook = i > 1,
                                 !.logged =
                                     ParserLogs(call.parser, call.contents)]
    /\ pending' = [j \in 1..(Len(pending) - 1) |->
                      IF j < i THEN pending[j] ELSE pending[j + 1]]
    /\ UNCHANGED <<options, extensionAliases, parsers, extensions, calls,
                   scan, replacing>>

NextConcurrent ==
    \/ \E parser \in ParserObjects : addParser(parser)
    \/ \E fileName \in FileNames, contents \in Contents :
           processStart(fileName, contents)
    \/ \E i \in 1..MaxCalls : processComplete(i)

SpecConcurrent == InitConstructed /\ [][NextConcurrent]_vars

(***************************************************************************)
(* The parser registry: the calls above on it, replaceParser with its      *)
(* while loop taken one iteration at a time, removeParser with an array,   *)
(* the extension lookups, and Parser.addExtension on the Parser objects.   *)
(***************************************************************************)
\* iterations of the loop of one replaceParser call that are followed
MaxIter == 3

\* a parser argument: an id string or a Parser object
ParserRefs == {"plain", "cfamily"} \cup ParserObjects

\* const id = typeof parser === 'string' ? parser : parser.id
RefId(parser) == IF parser \in ParserObjects THEN ParserId(parser) ELSE parser

ParserArrays ==
    { <<>>, <<"plain">>, <<"P2">>, <<"plain", "cfamily">>, <<"P1", "P2">> }

ParserExtensionInputs == { <<"c">>, <<".","X">>, <<"*">> }

hasParser(parser) ==
    LET id == RefId(parser)
    IN  IF id = "" THEN FALSE
        ELSE findIndex([i \in 1..Len(parsers) |->
                           ParserId(parsers[i]) = id]) # -1

\* replaceParser(parser, replacement) up to the loop: parser an id or a
\* Parser, replacement a Parser, so no TypeError is thrown
replaceParser(parser, replacement) ==
    LET id == RefId(parser)
    IN  /\ Call
        /\ replacing' =
               [pc |-> "loop", id |-> id, replacement |-> replacement,
                ind |-> 0, iter |-> 0,
                held |-> {i \in 1..Len(parsers) : ParserId(parsers[i]) = id}]
        /\ last' = Called("replaceParser", <<>>, TRUE, <<>>)
        /\ UNCHANGED <<options, extensionAliases, parsers, extensions,
                       filesRead, lineStats, charStats, scan, pending>>

\* one pass of while(ind !== -1): findIndex, then the assignment or the exit
replaceParserIterate ==
    /\ replacing.pc = "loop"
    /\ replacing.ind # -1
    /\ replacing.iter < MaxIter
    /\ LET ind == findIndex([i \in 1..Len(parsers) |->
                                ParserId(parsers[i]) = replacing.id])
       IN  /\ parsers' = IF ind # -1
                         THEN [parsers EXCEPT ![ind + 1] =
                                                  replacing.replacement]
                         ELSE parsers
           /\ replacing' = [replacing EXCEPT
                               !.ind = ind, !.iter = @ + 1,
                               !.pc = IF ind = -1 THEN "done" ELSE "loop"]
    /\ UNCHANGED <<options, extensionAliases, extensions, filesRead,
                   lineStats, charStats, last, calls, scan, pending>>

\* removeParser(parser), parser an array of ids or Parser objects: forEach
\* filters every element's id out, then the type tests of the single form
\* run on the array itself and end in the TypeError
removeParserArray(parser) ==
    LET ids == {RefId(parser[i]) : i \in 1..Len(parser)}
    IN  /\ Call
        /\ parsers' = SelectSeq(parsers, LAMBDA ent : ParserId(ent) \notin ids)
        /\ last' = Thrown("removeParser[]", parser, "TypeError")
        /\ UNCHANGED <<options, extensionAliases, extensions, filesRead,
                       lineStats, charStats, scan, replacing, pending>>

callHasParserForExtension(ext) ==
    /\ Call
    /\ last' = Called("hasParserForExtension", ext, TRUE,
                      hasParserForExtension(ext))
    /\ UNCHANGED <<options, extensionAliases, parsers, extensions, filesRead,
                   lineStats, charStats, scan, replacing, pending>>

callGetParserForExtension(ext) ==
    /\ Call
    /\ last' = Called("getParserForExtension", ext, TRUE,
                      getParserForExtension(ext))
    /\ UNCHANGED <<options, extensionAliases, parsers, extensions, filesRead,
                   lineStats, charStats, scan, replacing, pending>>

\* addExtension that does not test whether the list holds the extension
addExtension_noIncludes(exts, ext) ==
    LET cln == cleanExtension(ext)
    IN  IF cln = << >> THEN [extensions |-> exts, ret |-> FALSE]
        ELSE [extensions |-> Append(exts, cln), ret |-> TRUE]

\* Parser.addExtension(ext), ext a string, on the list exts: the list
\* afterwards and the value returned
addExtension(exts, ext) ==
    LET cln == cleanExtension(ext)
    IN  IF cln = << >> \/ \E i \in 1..Len(exts) : exts[i] = cln
        THEN [extensions |-> exts, ret |-> FALSE]
        ELSE [extensions |-> Append(exts, cln), ret |-> TRUE]

\* Parser.addExtension(ext), ext an array of strings:
\* ext.map(ent => this.addExtension(ent)).reduce((acc, cur) => acc || cur,
\* false), from element ind on
RECURSIVE addExtensionEach(_, _, _, _)
addExtensionEach(exts, ext, ind, acc) ==
    IF ind > Len(ext) THEN [extensions |-> exts, ret |-> acc]
    ELSE LET one == addExtension(exts, ext[ind])
         IN  addExtensionEach(one.extensions, ext, ind + 1, acc \/ one.ret)

\* Parser.removeExtension(ext) on the list exts
removeExtension(exts, ext) ==
    LET cln == cleanExtension(ext)
        ind == findIndex([i \in 1..Len(exts) |-> exts[i] = cln])
    IN  IF cln = << >> \/ ind = -1
        THEN [extensions |-> exts, ret |-> FALSE]
        ELSE [extensions |-> SubSeq(exts, 1, ind)
                                 \o SubSeq(exts, ind + 2, Len(exts)),
              ret |-> TRUE]

\* Parser.addExtension(ext) on the Parser object p (not a call on the
\* SCNT instance), ext a string or a value that is not a string
parserAddExtension(p, ext) ==
    LET done == addExtension(extensions[p], ext)
    IN  /\ replacing.pc # "loop"
        /\ IF ext = Inherited THEN
               /\ last' = [Thrown("Parser.addExtension", ext, "TypeError")
                              EXCEPT !.parser = p]
               /\ UNCHANGED extensions
           ELSE
               /\ extensions' = [extensions EXCEPT ![p] = done.extensions]
               /\ last' = [Called("Parser.addExtension", ext, TRUE, done.ret)
                              EXCEPT !.parser = p]
        /\ UNCHANGED <<options, extensionAliases, parsers, filesRead,
                       lineStats, charStats, calls, scan, replacing, pending>>

\* Parser.addExtension(ext) on p, ext an array of strings
parserAddExtensionArray(p, ext) ==
    LET done == addExtensionEach(extensions[p], ext, 1, FALSE)
    IN  /\ replacing.pc # "loop"
        /\ extensions' = [extensions EXCEPT ![p] = done.extensions]
        /\ last' = [Called("Parser.addExtension[]", ext, TRUE, done.ret)
                       EXCEPT !.parser = p]
        /\ UNCHANGED <<options, extensionAliases, parsers, filesRead,
                       lineStats, charStats, calls, scan, replacing, pending>>

\* Parser.removeExtension(ext) on p
parserRemoveExtension(p, ext) ==
    LET done == removeExtension(extensions[p], ext)
    IN  /\ replacing.pc # "loop"
        /\ extensions' = [extensions EXCEPT ![p] = done.extensions]
        /\ last' = [Called("Parser.removeExtension", ext, TRUE, done.ret)
                       EXCEPT !.parser = p]
        /\ UNCHANGED <<options, extensionAliases, parsers, filesRead,
                       lineStats, charStats, calls, scan, replacing, pending>>

\* Parser.hasExtension(ext) on p
parserHasExtension(p, ext) ==
    /\ replacing.pc # "loop"
    /\ last' = [Called("Parser.hasExtension", ext, TRUE,
                       ParserHasExtension(p, ext))
                   EXCEPT !.parser = p]
    /\ UNCHANGED <<options, extensionAliases, parsers, extensions, filesRead,
                   lineStats, charStats, calls, scan, replacing, pending>>

NextRegistry ==
    \/ \E parser \in ParserObjects : addParser(parser)
    \/ \E parser \in ParserRefs, replacement \in ParserObjects :
           replaceParser(parser, replacement)
    \/ replaceParserIterate
    \/ \E parser \in ParserObjects : removeParser(parser)
    \/ \E parser \in ParserArrays : removeParserArray(parser)
    \/ clearParsers
    \/ \E opts \in OptionInputs : applyOptions(opts)
    \/ \E p \in ParserObjects, ext \in ParserExtensionInputs :
           parserAddExtension(p, ext)
    \/ \E ext \in ExtensionInputs : callHasParserForExtension(ext)
    \/ \E ext \in ExtensionInputs : callGetParserForExtension(ext)

SpecRegistry == Init /\ [][NextRegistry]_vars

(***************************************************************************)
(* The extension aliases, with the extensions an object literal answers    *)
(* for by inheritance among the inputs.                                    *)
(***************************************************************************)
AliasInputs == { <<"x">>, <<".","X">>, <<"*">> } \cup ObjectPrototypeKeys

NextAliases ==
    \/ \E oldExt \in AliasInputs, newExt \in AliasInputs :
           addExtensionAlias(oldExt, newExt)
    \/ \E ext \in AliasInputs : removeExtensionAlias(ext)
    \/ clearExtensionAliases
    \/ \E ext \in AliasInputs : callAliasExtension(ext)

SpecAliases == Init /\ [][NextAliases]_vars

(***************************************************************************)
(* Invalid arguments: the calls that test what they are given.             *)
(***************************************************************************)
\* null, and an object that is not a Parser
InvalidParsers == {NULL, "{}"}

\* arrays of [old, new] entries: well formed, too short, not cleanable,
\* not a string
AliasArrays ==
    { << <<(<<"x">>), (<<"c">>)>> >>,
      << <<(<<"x">>), (<<"c">>)>>, <<(<<"x">>), (<<"y">>)>> >>,
      << <<(<<"x">>)>> >>,
      << <<(<<"x">>), (<<"c">>)>>, <<(<<"*">>), (<<"c">>)>> >>,
      << <<(<<"x">>), Inherited>> >> }

\* the callback of aliases.map from entry ind on: the table so far, the
\* previous targets returned so far (the trailing filter keeps the strings)
RECURSIVE addExtensionAliasesFrom(_, _, _, _)
addExtensionAliasesFrom(aliases, ind, table, returned) ==
    IF ind > Len(aliases) THEN
        [ok |-> TRUE, table |-> table, returned |-> returned]
    ELSE
        LET ent == aliases[ind]
            thrown == [ok |-> FALSE, table |-> table, returned |-> << >>]
        IN  IF Len(ent) < 2 THEN thrown
            ELSE IF ent[1] = Inherited \/ ent[2] = Inherited THEN thrown
            ELSE LET oldExt == cleanExtension(ent[1])
                     newExt == cleanExtension(ent[2])
                     existing == aliasGet(table, oldExt)
                 IN  IF oldExt = << >> \/ newExt = << >> THEN thrown
                     ELSE addExtensionAliasesFrom(
                              aliases, ind + 1,
                              aliasSet(table, oldExt, newExt),
                              IF existing \in {<< >>, Inherited}
                              THEN returned
                              ELSE Append(returned, existing))

addExtensionAliases(aliases) ==
    LET done == addExtensionAliasesFrom(aliases, 1, extensionAliases, << >>)
    IN  /\ Call
        /\ extensionAliases' = done.table
        /\ last' = IF done.ok
                   THEN Called("addExtensionAliases", aliases, TRUE,
                               done.returned)
                   ELSE Thrown("addExtensionAliases", aliases, "Error")
        /\ UNCHANGED <<options, parsers, extensions, filesRead,
                       lineStats, charStats, scan, replacing, pending>>

\* extensions given where one is expected: valid, not cleanable, not a
\* string
ArgumentExtensions == { <<"x">>, <<"*">>, Inherited }

NextArguments ==
    \/ \E parser \in ParserObjects \cup InvalidParsers : addParser(parser)
    \/ \E ext \in ArgumentExtensions : parserAddExtension("P1", ext)
    \/ \E oldExt \in ArgumentExtensions, newExt \in ArgumentExtensions :
           addExtensionAlias(oldExt, newExt)
    \/ \E aliases \in AliasArrays : addExtensionAliases(aliases)
    \/ \E fileName \in FileNames, contents \in {<<>>, <<"a">>} :
           process(fileName, contents)

SpecArguments == Init /\ [][NextArguments]_vars

(***************************************************************************)
(* Files whose extension is aliased: parsers registered with extensions    *)
(* of their own, aliases added, files processed.                           *)
(***************************************************************************)
AliasSources == { <<"x">>, <<"c">> }

AliasTargets == { <<"c">>, <<"c","o","n","s","t","r","u","c","t","o","r">> }

AliasedFileNames == { <<"a",".","x">>, <<"a",".","c">> }

NextAliased ==
    \/ \E parser \in ParserObjects : addParser(parser)
    \/ \E ext \in AliasTargets \cap ObjectPrototypeKeys :
           parserAddExtension("P1", ext)
    \/ \E oldExt \in AliasSources, newExt \in AliasTargets :
           addExtensionAlias(oldExt, newExt)
    \/ \E fileName \in AliasedFileNames : process(fileName, <<"a">>)

SpecAliased == InitConstructed /\ [][NextAliased]_vars

(***************************************************************************)
(* Every operation of the instance that changes its state, on an instance  *)
(* that may hold parsers, aliases and files.                               *)
(***************************************************************************)
FrameFileNames == { <<"a">>, <<"a",".","c">> }

FrameContents == { <<"a">>, <<"a","\n","1">> }

FrameOptions == { [requireExtension |-> FALSE, defaultParser |-> "P1"] }

FrameAliasArrays == { << <<(<<"x">>), (<<"c">>)>>, <<(<<"y">>)>> >> }

NextFrame ==
    \/ \E parser \in ParserObjects : addParser(parser)
    \/ \E parser \in ParserObjects : removeParser(parser)
    \/ \E replacement \in ParserObjects : replaceParser("P2", replacement)
    \/ replaceParserIterate
    \/ clearParsers
    \/ addExtensionAlias(<<"x">>, <<"c">>)
    \/ \E aliases \in FrameAliasArrays : addExtensionAliases(aliases)
    \/ removeExtensionAlias(<<"x">>)
    \/ clearExtensionAliases
    \/ \E opts \in FrameOptions : applyOptions(opts)
    \/ reset
    \/ \E fileName \in FrameFileNames, contents \in FrameContents :
           process(fileName, contents)

SpecFrame == InitConstructed /\ [][NextFrame]_vars

(***************************************************************************)
(* Aliases added in batches: pairs that overwrite one another, a malformed *)
(* pair after and before well-formed ones, keys an object literal answers  *)
(* for by inheritance.                                                     *)
(***************************************************************************)
BatchArrays ==
    { << <<(<<"x">>), (<<"c">>)>>, <<(<<"x">>), (<<"y">>)>> >>,
      << <<(<<"y">>), (<<"c">>)>>, <<(<<"x">>), (<<".","C">>)>> >>,
      << <<(<<"x">>), (<<"c">>)>>, <<(<<"*">>), (<<"c">>)>>,
         <<(<<"y">>), (<<"c">>)>> >>,
      << <<(<<"y">>), (<<"x">>)>>, <<(<<"x">>)>> >>,
      << <<(<<"_","_","p","r","o","t","o","_","_">>), (<<"x">>)>> >>,
      << >> }

NextBatch ==
    \/ \E aliases \in BatchArrays : addExtensionAliases(aliases)
    \/ \E ext \in {<<"x">>, <<"y">>} : removeExtensionAlias(ext)
    \/ \E ext \in {<<"x">>, <<"y">>} : callAliasExtension(ext)
    \/ clearExtensionAliases

SpecBatch == Init /\ [][NextBatch]_vars

(***************************************************************************)
(* The extensions of the Parser objects under their own methods.           *)
(***************************************************************************)
ExtensionArrays ==
    { << >>, << <<"*">>, <<".">> >>, << <<"c">>, <<".","C">>, <<"*">> >>,
      << <<"x">>, <<"c">> >> }

NextExtensions ==
    \/ \E p \in ParserObjects, ext \in ParserExtensionInputs :
           parserAddExtension(p, ext)
    \/ \E p \in ParserObjects, ext \in ExtensionArrays :
           parserAddExtensionArray(p, ext)
    \/ \E p \in ParserObjects, ext \in ParserExtensionInputs :
           parserRemoveExtension(p, ext)
    \/ \E p \in ParserObjects, ext \in ParserExtensionInputs :
           parserHasExtension(p, ext)

SpecExtensions == Init /\ [][NextExtensions]_vars

(***************************************************************************)
(* The functions of src/extensions.ts called on their own.                 *)
(***************************************************************************)
UtilityChars == {"b", "B", ".", " ", "/"}

UtilityInputs == StringsOf(UtilityChars, 0, MaxLen)

\* a string is given; one of the functions is then called on it
InitUtilities ==
    /\ options = DefaultOptions
    /\ extensionAliases = << >>
    /\ parsers = << >>
    /\ extensions = [p \in ParserObjects |-> InitialExtensions(p)]
    /\ filesRead = << >>
    /\ lineStats = makeEmptyLineStatistics
    /\ charStats = makeEmptyCharacterStatistics
    /\ \E given \in UtilityInputs : last = Called("given", given, TRUE, <<>>)
    /\ calls = 0
    /\ scan = [pc |-> "idle"]
    /\ replacing = [pc |-> "idle"]
    /\ pending = << >>

callHasExtension ==
    /\ last.op = "given"
    /\ last' = Called("hasExtension", last.arg, TRUE, hasExtension(last.arg))
    /\ UNCHANGED <<options, extensionAliases, parsers, extensions, filesRead,
                   lineStats, charStats, calls, scan, replacing, pending>>

callExtractExtension ==
    /\ last.op = "given"
    /\ last' = Called("extractExtension", last.arg, TRUE,
                      extractExtension(last.arg))
    /\ UNCHANGED <<options, extensionAliases, parsers, extensions, filesRead,
                   lineStats, charStats, calls, scan, replacing, pending>>

\* cleanExtension(ext), then cleanExtension of what it returned: both results
callCleanExtensionTwice ==
    /\ last.op = "given"
    /\ last' = Called("cleanExtension twice", last.arg, TRUE,
                      <<cleanExtension(last.arg),
                        cleanExtension(cleanExtension(last.arg))>>)
    /\ UNCHANGED <<options, extensionAliases, parsers, extensions, filesRead,
                   lineStats, charStats, calls, scan, replacing, pending>>

NextUtilities ==
    callHasExtension \/ callExtractExtension \/ callCleanExtensionTwice

SpecUtilities == InitUtilities /\ [][NextUtilities]_vars

(***************************************************************************)
(* One parse call on a Parser object (the plain-text Parser or the         *)
(* CFamilyParser), character by character.                                 *)
(***************************************************************************)
ParseChars == {"a", "1", " ", "\n", "\r", "/", "*"}

\* the contents of the test 'processes the results as expected'
TestContents ==
    <<"1","2","3","\n","a","b","c","\n","!","@","#","\n",
      "\t","\r","\n","\r","\n","\t","d","e","f">>

\* a source text with an inline comment, a block comment over three lines
\* that holds "//", and an inline comment that holds "/*"
CommentContents ==
    <<"/","/","a","\n","/","*","a","/","/","\n","\n","*","/"," ",
      "/","/","*","\n","a">>

ParseInputs ==
    StringsOf(ParseChars, 0, MaxLen) \cup {TestContents, CommentContents}

ScanOf(pc, parser, contents, s, result) ==
    [pc |-> pc, parser |-> parser, contents |-> contents, result |-> result,
     ind |-> s.ind, charIndex |-> s.charIndex, hadChar |-> s.hadChar,
     hadSource |-> s.hadSource, inInline |-> s.inInline,
     inBlock |-> s.inBlock, lineStats |-> s.lineStats,
     charStats |-> s.charStats]

InitParse ==
    /\ options = DefaultOptions
    /\ extensionAliases = << >>
    /\ parsers = << >>
    /\ extensions = [p \in ParserObjects |-> InitialExtensions(p)]
    /\ filesRead = << >>
    /\ lineStats = makeEmptyLineStatistics
    /\ charStats = makeEmptyCharacterStatistics
    /\ last = Called("new", <<>>, TRUE, <<>>)
    /\ calls = 0
    /\ \E parser \in {"P1", "P2"}, contents \in ParseInputs :
           scan = ScanOf("called", parser, contents, CFamilyStart, <<>>)
    /\ replacing = [pc |-> "idle"]
    /\ pending = << >>

\* empty contents: the promise is rejected
parseReject ==
    /\ scan.pc = "called"
    /\ ParserRejects(scan.parser, scan.contents)
    /\ scan' = [scan EXCEPT !.pc = "rejected"]
    /\ UNCHANGED scntVars

parseEnter ==
    /\ scan.pc = "called"
    /\ ~ParserRejects(scan.parser, scan.contents)
    /\ scan' = [scan EXCEPT !.pc = "loop"]
    /\ UNCHANGED scntVars

parseChar ==
    /\ scan.pc = "loop"
    /\ scan.ind < Len(scan.contents)
    /\ scan' = IF ParserId(scan.parser) = "cfamily"
               THEN CFamilyStep(scan, scan.contents)
               ELSE PlainStep(scan, scan.contents)
    /\ UNCHANGED scntVars

parseResolve ==
    /\ scan.pc = "loop"
    /\ scan.ind = Len(scan.contents)
    /\ scan' = [scan EXCEPT
                   !.pc = "resolved",
                   !.result = IF ParserId(scan.parser) = "cfamily"
                              THEN CFamilyFinish(scan, scan.contents)
                              ELSE PlainFinish(scan)]
    /\ UNCHANGED scntVars

NextParse == parseReject \/ parseEnter \/ parseChar \/ parseResolve

SpecParse == InitParse /\ [][NextParse]_vars

(***************************************************************************)
(* Properties of the SCNT instance (specification Spec).                   *)
(***************************************************************************)
RECURSIVE SumOfFiles(_, _, _)
SumOfFiles(files, which, zero) ==
    IF files = {} THEN zero
    ELSE LET f == CHOOSE g \in files : TRUE
             rest == SumOfFiles(files \ {f}, which, zero)
         IN  [key \in DOMAIN zero |-> rest[key] + filesRead[f][which][key]]

\* C1: the running totals equal, counter by counter, the sum of the
\* Statistics stored in filesRead.
TotalsAreSumOfFilesRead ==
    /\ lineStats = SumOfFiles(DOMAIN filesRead, 1, makeEmptyLineStatistics)
    /\ charStats =
           SumOfFiles(DOMAIN filesRead, 2, makeEmptyCharacterStatistics)

\* C2: a successful process of a tracked file whose new Statistics differ
\* from the stored ones takes the stored ones out of the totals and puts
\* the new ones in.
ReprocessReplacesContribution ==
    [][(/\ last'.op = "process" /\ last'.ok /\ last'.tracked
        /\ filesRead'[last'.arg] # filesRead[last'.arg])
       => /\ \A key \in DOMAIN lineStats :
                 lineStats'[key] = lineStats[key]
                     - filesRead[last'.arg][1][key] + last'.ret[1][key]
          /\ \A key \in DOMAIN charStats :
                 charStats'[key] = charStats[key]
                     - filesRead[last'.arg][2][key] + last'.ret[2][key]]_vars

\* C3: a successful process repeated at once with the same arguments leaves
\* the totals and the set of tracked file names as the first call left them.
RepeatedProcessIsIdempotent ==
    [][(last'.op = "process" /\ last'.ok /\ last'.again)
       => /\ lineStats' = lineStats
          /\ charStats' = charStats
          /\ DOMAIN filesRead' = DOMAIN filesRead]_vars

RepeatedProcessHappened ==
    /\ last.op = "process" /\ last.ok /\ last.again
    /\ lineStats # makeEmptyLineStatistics

\* C4: a process call that fails leaves the totals and filesRead as they
\* were before the call.
FailedProcessChangesNothing ==
    [][(last'.op = "process" /\ ~last'.ok)
       => UNCHANGED <<filesRead, lineStats, charStats>>]_vars

FailedProcessOfTrackedFile ==
    last.op = "process" /\ ~last.ok /\ last.tracked

\* C5: with requireExtension false and a default parser, a file whose
\* alias-resolved extension is not empty and is claimed by no registered
\* parser is parsed by the default parser.
UnclaimedExtensionUsesDefault ==
    (/\ last.op = "process" /\ last.contents # <<>>
     /\ ~options.requireExtension /\ options.defaultParser # NULL
     /\ aliasExtension(extractExtension(last.arg)) # <<>>
     /\ getParserForExtension(aliasExtension(extractExtension(last.arg)))
            = NULL)
    => (last.ok /\ last.parser = options.defaultParser)

\* C6: with requireExtension true, a file name from which no valid
\* extension can be extracted is rejected.
RequireExtensionRejects ==
    (/\ last.op = "process"
     /\ options.requireExtension
     /\ extractExtension(last.arg) = <<>>)
    => ~last.ok

\* C7: a file name without an extension, with contents, is processed (by
\* the default parser) exactly when requireExtension is false and a default
\* parser is set.
NoExtensionUsesDefault ==
    (last.op = "process" /\ ~hasExtension(last.arg) /\ last.contents # <<>>)
    => /\ last.ok <=>
              (~options.requireExtension /\ options.defaultParser # NULL)
       /\ last.ok => /\ last.parser = options.defaultParser
                     /\ last.arg \in DOMAIN filesRead

NoExtensionProcessed ==
    last.op = "process" /\ ~hasExtension(last.arg) /\ last.ok

\* C8: aliasExtension returns the direct alias of the cleaned extension, or
\* the cleaned extension when it has none; it follows no second hop.
AliasExtensionOneHop ==
    last.op = "aliasExtension"
    => LET cln == cleanExtension(last.arg)
       IN  last.ret = IF cln \in DOMAIN extensionAliases
                      THEN extensionAliases[cln] ELSE cln

AliasChainNotFollowed ==
    /\ last.op = "aliasExtension"
    /\ last.ret # cleanExtension(last.arg)
    /\ last.ret \in DOMAIN extensionAliases

(***************************************************************************)
(* Properties of one CFamilyParser.parse call (specification SpecParse).   *)
(***************************************************************************)
HasPair(contents, a, b) ==
    \E i \in 1..(Len(contents) - 1) : contents[i] = a /\ contents[i + 1] = b

NoCommentMarkers(contents) ==
    /\ ~HasPair(contents, "/", "/")
    /\ ~HasPair(contents, "/", "*")
    /\ ~HasPair(contents, "*", "/")

\* comments as a C lexer reads them: FALSE when a comment is opened inside
\* a comment or a block comment is still open at the end of the input
RECURSIVE CommentsWellFormed(_, _, _)
CommentsWellFormed(contents, i, mode) ==
    IF i > Len(contents) THEN mode # "block"
    ELSE LET pair == IF i < Len(contents)
                     THEN <<contents[i], contents[i + 1]>> ELSE <<>>
         IN  IF mode = "normal" THEN
                 IF pair = <<"/", "/">>
                 THEN CommentsWellFormed(contents, i + 2, "inline")
                 ELSE IF pair = <<"/", "*">>
                 THEN CommentsWellFormed(contents, i + 2, "block")
                 ELSE CommentsWellFormed(contents, i + 1, "normal")
             ELSE IF pair = <<"/", "/">> \/ pair = <<"/", "*">> THEN FALSE
             ELSE IF mode = "inline" THEN
                 CommentsWellFormed(contents, i + 1,
                     IF contents[i] = "\n" THEN "normal" ELSE "inline")
             ELSE IF pair = <<"*", "/">>
                 THEN CommentsWellFormed(contents, i + 2, "normal")
                 ELSE CommentsWellFormed(contents, i + 1, "block")

\* C9: on contents without comment markers the C-family parser resolves
\* with the Statistics of the plain-text parser.
CFamilyEqualsPlainWithoutMarkers ==
    (/\ scan.pc = "resolved" /\ ParserId(scan.parser) = "cfamily"
     /\ NoCommentMarkers(scan.contents))
    => scan.result = PlainParse(scan.contents)

\* C10: on contents without nested or unterminated comments the line total
\* of the C-family parser is the sum of its six line categories.
CFamilyLineTotalIsSum ==
    (/\ scan.pc = "resolved" /\ ParserId(scan.parser) = "cfamily"
     /\ CommentsWellFormed(scan.contents, 1, "normal"))
    => LET ls == scan.result[1]
       IN  ls.total = ls.source + ls.inlineComments + ls.blockComments
                          + ls.mixed + ls.whitespace + ls.empty

(***************************************************************************)
(* Statistics of one parse call.                                           *)
(***************************************************************************)
NonNegative(stats) == \A key \in DOMAIN stats : stats[key] >= 0

\* C11: every counter of the LineStats and CharacterStats a parse call
\* resolves with, under either parser class, is at least zero.
ParseCountersNonNegative ==
    scan.pc = "resolved"
    => (NonNegative(scan.result[1]) /\ NonNegative(scan.result[2]))

\* the number of '\n' characters of the contents
NewlinesIn(contents) ==
    Cardinality({i \in 1..Len(contents) : contents[i] = "\n"})

\* the number of '\r' characters the CRLF correction takes back: those
\* directly before a '\n' that sits at a (0-based) index greater than 1
CorrectedReturnsIn(contents) ==
    Cardinality({i \in 3..Len(contents) :
                    contents[i] = "\n" /\ contents[i - 1] = "\r"})

PlainResolved == scan.pc = "resolved" /\ ParserId(scan.parser) = "plain"

\* C12, as stated: the plain-text parser resolves with a charStats.total
\* equal to the length of the contents.
PlainCharTotalIsLength ==
    PlainResolved => scan.result[2].total = Len(scan.contents)

\* C12, amended: the plain-text parser resolves with a charStats.total equal
\* to the length of the contents less the '\n' characters and less at most
\* one for the '\r' of every "\r\n" pair: line ends are not counted.
PlainCharTotalExcludesNewlines ==
    PlainResolved
    => LET counted == Len(scan.contents) - NewlinesIn(scan.contents)
           returns == Cardinality({j \in 1..Len(scan.contents) :
                                      /\ scan.contents[j] = "\r"
                                      /\ j + 1 <= Len(scan.contents)
                                      /\ scan.contents[j + 1] = "\n"})
       IN  /\ scan.result[2].total <= counted
           /\ scan.result[2].total >= counted - returns

PlainCrlfParsed == PlainResolved /\ CorrectedReturnsIn(scan.contents) > 0

\* C13: the plain-text parser resolves with a line total that is the sum
\* of its source, whitespace and empty lines and is one more than the
\* number of '\n' characters of the contents.
PlainLineTotalIsLinesClosed ==
    PlainResolved
    => LET ls == scan.result[1]
       IN  /\ ls.total = ls.source + ls.whitespace + ls.empty
           /\ ls.total = NewlinesIn(scan.contents) + 1

PlainSeveralLinesParsed ==
    /\ PlainResolved
    /\ NewlinesIn(scan.contents) >= 2
    /\ scan.result[1].empty >= 1
    /\ scan.result[1].source >= 1

\* C14: the plain-text parser resolves the contents
\* "123\nabc\n!@#\n\t\r\n\r\n\tdef" with the Statistics the test expects.
TestContentsStatistics ==
    (PlainResolved /\ scan.contents = TestContents)
    => /\ scan.result[1] =
              [total |-> 6, totalSource |-> 4, source |-> 4,
               totalComments |-> 0, inlineComments |-> 0,
               blockComments |-> 0, mixed |-> 0, whitespace |-> 1,
               empty |-> 1]
       /\ scan.result[2] =
              [total |-> 14, source |-> 12, comment |-> 0,
               whitespace |-> 2, numerical |-> 3, alphabetical |-> 6,
               special |-> 3]

TestContentsParsed == PlainResolved /\ scan.contents = TestContents

(***************************************************************************)
(* The parser registry.                                                    *)
(***************************************************************************)
\* C15: between calls no two parsers of the registry have the same id.
RegistryIdsUnique ==
    replacing.pc # "loop"
    => \A i, j \in 1..Len(parsers) :
           i # j => ParserId(parsers[i]) # ParserId(parsers[j])

\* C16: replaceParser terminates (a pass of its loop that does not leave
\* the loop changes the registry, so the loop never repeats a state) and
\* when it returns every slot that held the replaced id holds the
\* replacement.
ReplaceParserTerminates ==
    [][/\ (replacing.pc = "loop" /\ replacing'.pc = "loop")
              => parsers' # parsers
       /\ (replacing.pc = "loop" /\ replacing'.pc = "done")
              => \A i \in replacing.held :
                     parsers'[i] = replacing.replacement]_vars

\* C17: removeParser with an array returns normally and leaves hasParser
\* false for every element of the array.
RemoveParserArrayReturns ==
    last.op = "removeParser[]"
    => /\ last.ok
       /\ \A i \in 1..Len(last.arg) : ~hasParser(last.arg[i])

\* the registered parsers, by position, whose extensions hold the cleaned ext
Claimers(ext) ==
    {i \in 1..Len(parsers) :
        \E k \in 1..Len(extensions[parsers[i]]) :
            extensions[parsers[i]][k] = cleanExtension(ext)}

\* C18: hasParserForExtension answers true and getParserForExtension
\* answers a parser exactly when the cleaned extension is not empty and a
\* registered parser holds it; the parser answered is the earliest
\* registered one that holds it, whatever options.defaultParser is.
ExtensionLookupIsEarliestClaimer ==
    LET e == last.arg
        found == cleanExtension(e) # <<>> /\ Claimers(e) # {}
    IN  /\ last.op = "hasParserForExtension" => last.ret = found
        /\ last.op = "getParserForExtension"
               => /\ (last.ret # NULL) = found
                  /\ found => /\ last.ret \in ParserObjects
                              /\ \E i \in Claimers(e) :
                                     /\ parsers[i] = last.ret
                                     /\ \A j \in Claimers(e) : i <= j

LookupWithTwoClaimers ==
    /\ last.op = "getParserForExtension"
    /\ last.ret # NULL
    /\ Cardinality(Claimers(last.arg)) >= 2
    /\ \E i, j \in Claimers(last.arg) : parsers[i] # parsers[j]

(***************************************************************************)
(* reset and empty contents.                                               *)
(***************************************************************************)
\* C19: a reset call leaves the map of files empty and every counter of
\* both running totals at 0, and a process call that succeeds directly
\* after it finds its file untracked and leaves the totals equal to the
\* Statistics of that one file: nothing is subtracted.
ResetForgetsEverything ==
    [][/\ last'.op = "reset"
              => /\ filesRead' = << >>
                 /\ lineStats' = makeEmptyLineStatistics
                 /\ charStats' = makeEmptyCharacterStatistics
       /\ (last.op = "reset" /\ last'.op = "process" /\ last'.ok)
              => /\ ~last'.tracked
                 /\ lineStats' = last'.ret[1]
                 /\ charStats' = last'.ret[2]
                 /\ DOMAIN filesRead' = {last'.arg}]_vars

ResetOfTrackedFiles ==
    /\ last.op = "reset"
    /\ last.tracked
    /\ filesRead = << >>

\* C20: parse of empty contents is rejected by both parser classes and
\* process of empty contents fails, whatever the file name, the registry
\* and the options; neither delivers a Statistics value.
EmptyContentsFail ==
    (last.op \in {"parse", "process"} /\ last.contents = << >>)
    => (~last.ok /\ last.ret = << >>)

EmptyContentsGivenToReadyParser ==
    /\ last.op = "process"
    /\ last.contents = << >>
    /\ hasExtension(last.arg)
    /\ getParserForExtension(extractExtension(last.arg)) # NULL
    /\ ~last.ok

(***************************************************************************)
(* The extension aliases.                                                  *)
(***************************************************************************)
\* C21: addExtensionAlias(old, new) fails and leaves the aliases unchanged
\* when either extension cleans to the empty string; otherwise it maps the
\* cleaned old extension to the cleaned new one, returns the target the old
\* one was mapped to before (nothing when it was not mapped) and leaves
\* every other entry unchanged.
AddExtensionAliasMapsOrFails ==
    [][last'.op = "addExtensionAlias"
       => LET oldCln == cleanExtension(last'.arg[1])
              newCln == cleanExtension(last'.arg[2])
          IN  IF oldCln = <<>> \/ newCln = <<>> THEN
                  ~last'.ok /\ extensionAliases' = extensionAliases
              ELSE
                  /\ last'.ok
                  /\ DOMAIN extensionAliases'
                         = DOMAIN extensionAliases \cup {oldCln}
                  /\ extensionAliases'[oldCln] = newCln
                  /\ \A e \in DOMAIN extensionAliases \ {oldCln} :
                         extensionAliases'[e] = extensionAliases[e]
                  /\ last'.ret = IF oldCln \in DOMAIN extensionAliases
                                 THEN extensionAliases[oldCln]
                                 ELSE << >>]_vars

(***************************************************************************)
(* Kinds of failure.                                                       *)
(***************************************************************************)
\* C22: an invalid argument to addParser, Parser.addExtension,
\* addExtensionAlias or addExtensionAliases is signalled by a TypeError,
\* and a failed process call by an error of another kind.
InvalidArgumentsThrowTypeError ==
    /\ (/\ last.op \in {"addParser", "Parser.addExtension",
                        "addExtensionAlias", "addExtensionAliases"}
        /\ ~last.ok)
           => last.error = "TypeError"
    /\ (last.op = "process" /\ ~last.ok) => last.error # "TypeError"

(***************************************************************************)
(* The extensions of a parser.                                             *)
(***************************************************************************)
ExtensionSet(exts) == {exts[i] : i \in 1..Len(exts)}

CleanedOf(exts) == {cleanExtension(exts[i]) : i \in 1..Len(exts)} \ {<< >>}

\* every list of extensions holds cleaned, non-empty values, each once
ExtensionsAreCleanSets ==
    \A p \in ParserObjects :
        /\ \A i, j \in 1..Len(extensions[p]) :
               i # j => extensions[p][i] # extensions[p][j]
        /\ \A i \in 1..Len(extensions[p]) :
               /\ extensions[p][i] # << >>
               /\ cleanExtension(extensions[p][i]) = extensions[p][i]

\* what one call on a parser's extensions did and returned
ExtensionCallIsSetOperation ==
    LET p == last'.parser
        before == ExtensionSet(extensions[p])
        after == ExtensionSet(extensions'[p])
        cln == cleanExtension(last'.arg)
    IN  /\ (last'.op = "Parser.addExtension" /\ last'.ok)
               => /\ last'.ret = (cln # << >> /\ cln \notin before)
                  /\ after = before \cup ({cln} \ {<< >>})
        /\ last'.op = "Parser.addExtension[]"
               => /\ after = before \cup CleanedOf(last'.arg)
                  /\ last'.ret = (after # before)
        /\ last'.op = "Parser.removeExtension"
               => /\ last'.ret = (cln \in before)
                  /\ after = before \ {cln}
        /\ last'.op = "Parser.hasExtension"
               => /\ last'.ret = (cln \in before)
                  /\ after = before

\* C23: under any sequence of addExtension and removeExtension a parser's
\* extensions are a set of cleaned values (no duplicates, no empty string,
\* nothing uncleaned); addExtension returns true exactly when it inserts
\* (for an array: every element is attempted, true iff one was inserted),
\* removeExtension returns true exactly when it removes, and hasExtension
\* is true exactly for the members.
ParserExtensionsAreSet ==
    []ExtensionsAreCleanSets /\ [][ExtensionCallIsSetOperation]_vars

ArrayAddedWithRefusals ==
    /\ last.op = "Parser.addExtension[]"
    /\ last.ret
    /\ \E i \in 1..Len(last.arg) : cleanExtension(last.arg[i]) = << >>
    /\ Cardinality(CleanedOf(last.arg)) < Len(last.arg) - 1

(***************************************************************************)
(* The functions of src/extensions.ts.                                     *)
(***************************************************************************)
\* the 1-based position of the last '.' of a string that has one
LastDotOf(name) ==
    CHOOSE i \in 1..Len(name) :
        name[i] = "." /\ \A j \in (i + 1)..Len(name) : name[j] # "."

HasDot(name) == \E i \in 1..Len(name) : name[i] = "."

\* name = prefix + "." + suffix with a suffix of one or more characters,
\* none of them refused by regexpExtension (so the '.' is the last one)
HasValidSuffix(name) ==
    /\ HasDot(name)
    /\ LastDotOf(name) < Len(name)
    /\ \A j \in (LastDotOf(name) + 1)..Len(name) :
           name[j] \notin ExtensionBadChars

SuffixOf(name) == SubSeq(name, LastDotOf(name) + 1, Len(name))

\* C24, as stated: for a file name prefix + "." + suffix, the prefix empty
\* or not, with a suffix of valid characters, extractExtension returns the
\* lower-cased suffix.
ExtractIsLowerCasedSuffix ==
    (last.op = "extractExtension" /\ HasValidSuffix(last.arg))
    => last.ret = [i \in 1..Len(SuffixOf(last.arg)) |->
                      lowerChar(SuffixOf(last.arg)[i])]

\* C24, amended: with a prefix of one or more characters extractExtension
\* returns the lower-cased suffix without its surrounding whitespace, and
\* with the empty prefix (a hidden file) it returns the empty string.
ExtractIsTrimmedSuffixUnlessHidden ==
    (last.op = "extractExtension" /\ HasValidSuffix(last.arg))
    => last.ret = IF LastDotOf(last.arg) = 1 THEN << >>
                  ELSE trim([i \in 1..Len(SuffixOf(last.arg)) |->
                                lowerChar(SuffixOf(last.arg)[i])])

ExtractedUpperCaseSuffix ==
    /\ last.op = "extractExtension"
    /\ HasValidSuffix(last.arg)
    /\ LastDotOf(last.arg) > 1
    /\ last.ret # << >>
    /\ \E i \in 1..Len(SuffixOf(last.arg)) : SuffixOf(last.arg)[i] = "B"

\* C25: hasExtension(name) is true exactly when the name is not empty, its
\* last '.' is at (0-based) index 1 or more and a character follows it.
HasExtensionIffDotInside ==
    last.op = "hasExtension"
    => last.ret = (/\ Len(last.arg) > 0
                   /\ HasDot(last.arg)
                   /\ LastDotOf(last.arg) - 1 >= 1
                   /\ LastDotOf(last.arg) < Len(last.arg))

HiddenFileAsked ==
    /\ last.op = "hasExtension"
    /\ Len(last.arg) > 1
    /\ LastDotOf(last.arg) = 1
    /\ ~last.ret

\* C26: cleanExtension applied to its own result returns that result.
CleanExtensionIdempotent ==
    last.op = "cleanExtension twice" => last.ret[2] = last.ret[1]

CleanedTwiceWithWork ==
    /\ last.op = "cleanExtension twice"
    /\ HasDot(last.arg)
    /\ last.ret[1] # << >>
    /\ \E i \in 1..Len(last.arg) : last.arg[i] = "B"
    /\ \E i \in 1..Len(last.arg) : last.arg[i] = " "

\* C27: process calls in flight together are reconciled one at a time and
\* in any order of completion: a call that resumes for a file that is not
\* tracked adds exactly the Statistics it returns to both totals, counter
\* by counter, and exactly one entry, its own, to the map of files, and
\* leaves the other calls pending; so the calls of distinct untracked
\* files end with the totals at the sum of the returned Statistics and one
\* entry per file, whatever the order
ReturnedTo(totals, stats) ==
    [key \in DOMAIN totals |->
        totals[key] + (IF key \in DOMAIN stats THEN stats[key] ELSE 0)]

PendingNames(q) == {q[j].fileName : j \in 1..Len(q)}

CompletionAddsOwnStatistics ==
    (/\ Len(pending') = Len(pending) - 1
     /\ last'.arg \notin DOMAIN filesRead)
    => /\ last'.op = "process" /\ last'.ok
       /\ last'.arg \in PendingNames(pending)
       /\ DOMAIN filesRead' = DOMAIN filesRead \cup {last'.arg}
       /\ filesRead'[last'.arg] = last'.ret
       /\ \A f \in DOMAIN filesRead : filesRead'[f] = filesRead[f]
       /\ lineStats' = ReturnedTo(lineStats, last'.ret[1])
       /\ charStats' = ReturnedTo(charStats, last'.ret[2])
       /\ \A j \in 1..Len(pending') : \E k \in 1..Len(pending) :
              pending'[j] = pending[k]

ConcurrentCompletionsAddUp == [][CompletionAddsOwnStatistics]_vars

\* two calls for distinct files were pending and the later one resumed
\* first, with totals that were not empty
CompletedOutOfOrder ==
    /\ last.op = "process" /\ last.ok /\ last.overtook
    /\ ~last.tracked
    /\ Len(pending) >= 1
    /\ last.arg \notin PendingNames(pending)
    /\ Cardinality(DOMAIN filesRead) >= 2
    /\ lineStats.total > last.ret[1].total

(***************************************************************************)
(* Properties of the comment modes of CFamilyParser.parse (specification   *)
(* SpecParse).                                                             *)
(***************************************************************************)
\* the scan of the C-family parser is inside its loop
CFamilyInLoop == ParserId(scan.parser) = "cfamily" /\ scan.pc = "loop"

\* the step scans one character of the C-family parser
CFamilyScansChar ==
    /\ CFamilyInLoop
    /\ scan'.pc = "loop"
    /\ scan'.ind = scan.ind + 1

\* the character being scanned and the one before it, on the same line,
\* are the marker m
MarkerScanned(m) ==
    /\ scan.ind >= 1
    /\ scan.contents[scan.ind] = m[1]
    /\ scan.contents[scan.ind + 1] = m[2]

\* C28: scanning a character changes the comment mode in these cases only:
\* "//" outside both modes switches inline mode on, "/*" switches block
\* mode on (and inline mode off), "*/" in block mode switches block mode
\* off, and a line end switches inline mode off
CommentModeStep ==
    CFamilyScansChar =>
        LET char == scan.contents[scan.ind + 1]
            outside == ~scan.inInline /\ ~scan.inBlock
        IN  /\ scan'.inBlock =
                   IF MarkerScanned(<<"/", "*">>) THEN TRUE
                   ELSE IF scan.inBlock /\ MarkerScanned(<<"*", "/">>)
                        THEN FALSE
                   ELSE scan.inBlock
            /\ scan'.inInline =
                   IF char = "\n" THEN FALSE
                   ELSE IF outside /\ MarkerScanned(<<"/", "/">>) THEN TRUE
                   ELSE IF MarkerScanned(<<"/", "*">>) THEN FALSE
                   ELSE scan.inInline

CommentModeChangesOnlyAtMarkers == [][CommentModeStep]_vars

\* "//" was scanned inside a block comment, which is still open
InlineMarkerInsideBlock ==
    /\ CFamilyInLoop
    /\ scan.inBlock /\ ~scan.inInline
    /\ scan.ind >= 5
    /\ scan.contents[scan.ind - 1] = "/"
    /\ scan.contents[scan.ind] = "/"
    /\ scan.contents[scan.ind - 2] = "a"

\* C29: at every step of the scan of the C-family parser inInline and
\* inBlock are not both true
ModesMutuallyExclusive ==
    CFamilyInLoop => ~(scan.inInline /\ scan.inBlock)

\* "/*" was scanned inside an inline comment
BlockMarkerInsideInline ==
    /\ CFamilyInLoop
    /\ scan.inBlock
    /\ scan.ind >= 3
    /\ scan.contents[scan.ind - 2] = "/"
    /\ scan.contents[scan.ind - 1] = "/"
    /\ scan.contents[scan.ind] = "*"

\* C30: after a line end inline mode is off, and block mode stays on over
\* every character, line ends included, that does not complete a "*/"
InlineOffAfterLineEnd ==
    (CFamilyInLoop /\ scan.ind >= 1 /\ scan.contents[scan.ind] = "\n")
        => ~scan.inInline

BlockStaysUntilClosed ==
    (CFamilyScansChar /\ scan.inBlock)
        => (scan'.inBlock <=> ~MarkerScanned(<<"*", "/">>))

InlineEndsWithLineBlockPersists ==
    []InlineOffAfterLineEnd /\ [][BlockStaysUntilClosed]_vars

\* an inline comment ended with its line, and a block comment opened later
\* is still open after two line ends
BlockOpenAfterTwoLineEnds ==
    /\ CFamilyInLoop
    /\ scan.inBlock /\ ~scan.inInline
    /\ scan.ind >= 6
    /\ scan.contents[1] = "/" /\ scan.contents[2] = "/"
    /\ scan.contents[4] = "\n"
    /\ scan.contents[scan.ind - 1] = "\n"
    /\ scan.contents[scan.ind] = "\n"

\* the 1-based position of the last line end among the scanned characters
\* (0 if there is none): the line being scanned starts after it
ScannedLineStart ==
    Max({0} \cup {j \in 1..scan.ind : scan.contents[j] = "\n"})

\* the positions of the characters of the line being scanned
ScannedLine == (ScannedLineStart + 1)..scan.ind

\* the category the line being scanned belongs to if it ends now
CFamilyLineCategory ==
    IF scan.inInline THEN
        IF scan.hadSource THEN "mixed" ELSE "inlineComments"
    ELSE IF scan.inBlock THEN
        IF scan.hadSource THEN "mixed" ELSE "blockComments"
    ELSE IF ScannedLine = {} THEN "empty"
    ELSE IF \E j \in ScannedLine : ~whitespacePattern(scan.contents[j])
         THEN "source"
    ELSE "whitespace"

\* C31: a line end scanned by the C-family parser counts the line once, in
\* the category given by the mode at its end and by the characters of that
\* line alone
CFamilyLineClosedStep ==
    (CFamilyScansChar /\ scan.contents[scan.ind + 1] = "\n")
        => scan'.lineStats =
               [scan.lineStats EXCEPT ![CFamilyLineCategory] = @ + 1,
                                      !.total = @ + 1]

CFamilyLinesClassifiedByOwnCharacters == [][CFamilyLineClosedStep]_vars

\* the number of line ends in contents
LineEndsIn(contents) ==
    Cardinality({j \in 1..Len(contents) : contents[j] = "\n"})

\* C32: the C-family parser counts the line in progress when the input
\* ends: the result of an input that does not end with a line end counts
\* one line more than the input has line ends, and the result of every
\* input counts at least one line
CFamilyClosesFinalLine ==
    (ParserId(scan.parser) = "cfamily" /\ scan.pc = "resolved"
        /\ Len(scan.contents) > 0)
    => /\ scan.result[1].total >= 1
       /\ scan.contents[Len(scan.contents)] # "\n"
              => scan.result[1].total = LineEndsIn(scan.contents) + 1

\* the two characters of contents at the 1-based positions i and i + 1
PairAt(contents, i) ==
    IF i + 1 <= Len(contents) THEN <<contents[i], contents[i + 1]>>
    ELSE << >>

\* the comments of a source text read from position i in the given mode
\* ("normal", "inline", "block"): count is the number of characters that
\* are not whitespace and lie outside the comments and their markers;
\* plain is FALSE if a comment holds an opening marker or a block comment
\* is not closed
RECURSIVE ReadComments(_, _, _)
ReadComments(contents, i, mode) ==
    IF i > Len(contents) THEN [count |-> 0, plain |-> mode # "block"]
    ELSE
        LET pair == PairAt(contents, i)
            opens == pair \in {<<"/", "/">>, <<"/", "*">>}
        IN  IF mode = "normal" THEN
                IF pair = <<"/", "/">>
                THEN ReadComments(contents, i + 2, "inline")
                ELSE IF pair = <<"/", "*">>
                THEN ReadComments(contents, i + 2, "block")
                ELSE LET rest == ReadComments(contents, i + 1, "normal")
                     IN  [rest EXCEPT !.count =
                             IF whitespacePattern(contents[i]) THEN @
                             ELSE @ + 1]
            ELSE IF opens THEN [count |-> 0, plain |-> FALSE]
            ELSE IF mode = "inline" THEN
                ReadComments(contents, i + 1,
                             IF contents[i] = "\n" THEN "normal"
                             ELSE "inline")
            ELSE IF pair = <<"*", "/">>
                 THEN ReadComments(contents, i + 2, "normal")
            ELSE ReadComments(contents, i + 1, "block")

\* C33: the characters scanned in a comment do not add to
\* charStats.source, so that for a text whose comments are closed and hold
\* no opening marker the source count of the result is the number of
\* characters that are not whitespace and lie outside the comments and
\* their markers
CFamilySourceCountsOutsideComments ==
    (ParserId(scan.parser) = "cfamily" /\ scan.pc = "resolved"
        /\ ReadComments(scan.contents, 1, "normal").plain)
    => scan.result[2].source = ReadComments(scan.contents, 1, "normal").count

(***************************************************************************)
(* Properties of the plain-text Parser.parse (specification SpecParse).    *)
(***************************************************************************)
\* position j of contents holds the "\r" of a "\r\n" pair
CrOfCrlf(contents, j) ==
    /\ contents[j] = "\r"
    /\ j + 1 <= Len(contents)
    /\ contents[j + 1] = "\n"

\* position j is the first of its line
LineStartsAt(contents, j) == j = 1 \/ contents[j - 1] = "\n"

\* the number of lines of contents without a character, "\r\n" being one
\* line terminator; the run after the last line end is a line
EmptyLinesOf(contents) ==
    Cardinality({j \in 1..Len(contents) :
                    /\ LineStartsAt(contents, j)
                    /\ \/ contents[j] = "\n"
                       \/ CrOfCrlf(contents, j)})
    + (IF Len(contents) = 0 \/ contents[Len(contents)] = "\n" THEN 1 ELSE 0)

\* C34: the plain-text parser counts the "\r" of a "\r\n" pair, wherever
\* the pair stands, neither as a whitespace character nor as a character
\* of its line: whitespace counts the other whitespace characters that are
\* not line ends, and a line that is only "\r\n" is an empty line
PlainCrlfIsOneTerminator ==
    PlainResolved
    => /\ scan.result[2].whitespace =
              Cardinality({j \in 1..Len(scan.contents) :
                              /\ whitespacePattern(scan.contents[j])
                              /\ scan.contents[j] # "\n"
                              /\ ~CrOfCrlf(scan.contents, j)})
       /\ scan.result[1].empty = EmptyLinesOf(scan.contents)

\* the positions at which the lines of contents start; the run after the
\* last line end is a line, also when it has no character
LineStartsOf(contents) ==
    {j \in 1..(Len(contents) + 1) : LineStartsAt(contents, j)}

\* the position of the line end of the line that starts at j, one past
\* the contents for the last line
LineEndFrom(contents, j) ==
    LET ends == {k \in j..Len(contents) : contents[k] = "\n"}
    IN  IF ends = {} THEN Len(contents) + 1
        ELSE CHOOSE k \in ends : \A m \in ends : k <= m

\* the positions of the characters of the line that starts at j, its
\* terminator ("\n" or "\r\n") left out
LineCharsFrom(contents, j) ==
    LET end == LineEndFrom(contents, j)
    IN  {k \in j..(end - 1) : ~CrOfCrlf(contents, k)}

\* the category of the line that starts at j, from its own characters
PlainLineCategory(contents, j) ==
    LET chars == LineCharsFrom(contents, j)
    IN  IF chars = {} THEN "empty"
        ELSE IF \E k \in chars : ~whitespacePattern(contents[k])
             THEN "source"
        ELSE "whitespace"

LinesOfCategory(contents, category) ==
    Cardinality({j \in LineStartsOf(contents) :
                    PlainLineCategory(contents, j) = category})

\* C35: the plain-text parser counts every line, the last one included,
\* in the category its own characters give: empty without a character,
\* source with a character that is not whitespace, whitespace otherwise
PlainLinesClassifiedByOwnCharacters ==
    PlainResolved
    => /\ scan.result[1].empty = LinesOfCategory(scan.contents, "empty")
       /\ scan.result[1].source = LinesOfCategory(scan.contents, "source")
       /\ scan.result[1].whitespace =
              LinesOfCategory(scan.contents, "whitespace")

(***************************************************************************)
(* Properties of the character counts of both parsers (specification       *)
(* SpecParse).                                                             *)
(***************************************************************************)
\* the class of a character: whitespace before digit before letter before
\* special
ClassOf(char) ==
    IF whitespacePattern(char) THEN "whitespace"
    ELSE IF numericalPattern(char) THEN "numerical"
    ELSE IF alphabeticalPattern(char) THEN "alphabetical"
    ELSE "special"

CharsOfClass(contents, class) ==
    Cardinality({j \in 1..Len(contents) : ClassOf(contents[j]) = class})

\* the identities of the character counts of a result
CharacterIdentities ==
    LET cs == scan.result[2]
    IN  /\ cs.total = cs.whitespace + cs.numerical + cs.alphabetical
                          + cs.special
        /\ ParserId(scan.parser) = "plain"
               => /\ cs.source = cs.numerical + cs.alphabetical + cs.special
                  /\ cs.comment = 0
        /\ ParserId(scan.parser) = "cfamily"
               => /\ cs.total = Len(scan.contents)
                  /\ cs.comment <= cs.total

\* numerical, alphabetical and special count the characters of their class
NonWhitespaceClassesCounted ==
    LET cs == scan.result[2]
    IN  /\ cs.numerical = CharsOfClass(scan.contents, "numerical")
        /\ cs.alphabetical = CharsOfClass(scan.contents, "alphabetical")
        /\ cs.special = CharsOfClass(scan.contents, "special")

SelfCheckFailureIsNotFatal ==
    /\ (last.op = "parse" /\ ParserId(last.parser) = "cfamily"
           /\ Len(last.contents) > 0)
       => /\ last.ok /\ last.error = NULL
          /\ last.ret = CFamilyParse(last.contents)
    /\ (last.op = "process" /\ last.parser # NULL
           /\ ParserLogs(last.parser, last.contents))
       => /\ last.ok /\ last.error = NULL /\ last.logged
          /\ last.arg \in DOMAIN filesRead
          /\ filesRead[last.arg] = last.ret
          /\ last.ret = CFamilyParse(last.contents)
          /\ (Cardinality(DOMAIN filesRead) = 1 /\ ~last.tracked)
                 => /\ lineStats = ReturnedTo(makeEmptyLineStatistics,
                                              last.ret[1])
                    /\ charStats = ReturnedTo(makeEmptyCharacterStatistics,
                                              last.ret[2])

\* process has parsed, with the C-family parser, a text whose line counts
\* fail the self-check: the diagnostic was logged and the file is tracked
InconsistentResultProcessed ==
    /\ last.op = "process" /\ last.ok /\ last.logged
    /\ ParserId(last.parser) = "cfamily"
    /\ ~CFamilySelfCheck(last.ret[1])
    /\ last.arg \in DOMAIN filesRead

(***************************************************************************)
(* Properties of process for aliased extensions (specification             *)
(* SpecAliased).                                                           *)
(***************************************************************************)
\* C38: a file whose extension x has the alias y in the table is parsed by
\* the earliest registered parser that claims y, and is accepted, rejected
\* or given to the default parser exactly as a file with the extension y
\* is
AliasedFileProcessedAsTarget ==
    (/\ last.op = "process"
     /\ Len(last.contents) > 0
     /\ hasExtension(last.arg)
     /\ extractExtension(last.arg) \in DOMAIN extensionAliases)
    => LET y == extensionAliases[extractExtension(last.arg)]
           asTarget == processSelect(<<"a", ".">> \o y)
       IN  /\ last.parser = getParserForExtension(y)
           /\ last.ok = asTarget.ok
           /\ last.parser = asTarget.parser

(***************************************************************************)
(* Frame conditions of the SCNT instance (specification SpecFrame).        *)
(***************************************************************************)
RegistryAndAliasCalls ==
    {"addParser", "removeParser", "replaceParser", "clearParsers",
     "addExtensionAlias", "addExtensionAliases", "removeExtensionAlias",
     "clearExtensionAliases", "applyOptions"}

\* the step is a call of the operation op
CallOf(op) == calls' = calls + 1 /\ last'.op = op

\* C39: the operations on the registry, on the aliases and on the options
\* (the passes of the loop of replaceParser included) leave the map of
\* files and both totals as they are; reset leaves the registry, the
\* aliases and the options as they are; a process that succeeds leaves
\* these three as they are and changes the map at its file name only
FrameStep ==
    /\ (\E op \in RegistryAndAliasCalls : CallOf(op))
           => UNCHANGED <<filesRead, lineStats, charStats>>
    /\ replacing' # replacing
           => UNCHANGED <<filesRead, lineStats, charStats>>
    /\ CallOf("reset") => UNCHANGED <<parsers, extensionAliases, options>>
    /\ (CallOf("process") /\ last'.ok)
           => /\ UNCHANGED <<parsers, extensionAliases, options>>
              /\ DOMAIN filesRead' = DOMAIN filesRead \cup {last'.arg}
              /\ \A f \in DOMAIN filesRead \ {last'.arg} :
                     filesRead'[f] = filesRead[f]

FrameConditionsHold == [][FrameStep]_vars

\* the registry was cleared on an instance that tracks a file and holds an
\* alias
RegistryClearedWithFilesTracked ==
    /\ last.op = "clearParsers"
    /\ DOMAIN filesRead # {}
    /\ lineStats.total > 0
    /\ DOMAIN extensionAliases # {}

(***************************************************************************)
(* Properties of addExtensionAliases (specification SpecBatch).            *)
(***************************************************************************)
\* the entry of an array of pairs is malformed: no pair, an element that is
\* no string, or an extension that cleans to nothing
MalformedPair(ent) ==
    \/ Len(ent) < 2
    \/ ent[1] = Inherited \/ ent[2] = Inherited
    \/ cleanExtension(ent[1]) = << >>
    \/ cleanExtension(ent[2]) = << >>

\* the pairs from entry k on applied in order to a table of aliases: stops
\* at a malformed pair, and collects the target every key had when its
\* pair was applied
RECURSIVE PairsApplied(_, _, _, _)
PairsApplied(aliases, k, table, previous) ==
    IF k > Len(aliases) THEN
        [ok |-> TRUE, table |-> table, previous |-> previous]
    ELSE IF MalformedPair(aliases[k]) THEN
        [ok |-> FALSE, table |-> table, previous |-> previous]
    ELSE
        LET key == cleanExtension(aliases[k][1])
            target == cleanExtension(aliases[k][2])
        IN  PairsApplied(aliases, k + 1,
                         [e \in DOMAIN table \cup {key} |->
                             IF e = key THEN target ELSE table[e]],
                         IF key \in DOMAIN table
                         THEN Append(previous, table[key])
                         ELSE previous)

\* C40: addExtensionAliases applies its pairs in order up to the first
\* malformed one, at which it fails leaving the earlier pairs applied; when
\* no pair is malformed it returns, in order, the target every key had at
\* the moment its pair was applied
BatchStep ==
    CallOf("addExtensionAliases")
    => LET applied == PairsApplied(last'.arg, 1, extensionAliases, << >>)
       IN  /\ last'.ok = applied.ok
           /\ extensionAliases' = applied.table
           /\ applied.ok => last'.ret = applied.previous

BatchAppliedInOrder == [][BatchStep]_vars

====
